---- MODULE Spec2Model ----
(***************************************************************************)
(* A model of the Jarvis service (src/Jarvis/index.js): the session        *)
(* MessageBuffer, the POST /webhook handler, the cleanup sweep and the     *)
(* goals endpoints over the frienddb table.                                *)
(*                                                                         *)
(* Time is in whole seconds (Date.now() / 1000), persisted timestamps in   *)
(* milliseconds (toISOString keeps milliseconds).  A text is a sequence of *)
(* one-character strings.  Every await on the store is two steps: the      *)
(* store applying the call, and the handler resuming with its result.      *)
(***************************************************************************)
EXTENDS Integers, Sequences, FiniteSets, TLC

VARIABLES
    now,        \* the clock, seconds
    ticks,      \* clock advances made so far
    started,    \* requests accepted so far
    heap,       \* buffer objects ever allocated; an object's id is its index
    buffers,    \* MessageBuffer.buffers: session id -> object id, 0 when absent
    sessions,   \* table jarvis_sessions: session id -> row, NoRow when absent
    frienddb,   \* table frienddb: uid -> row, NoRow when absent
    req,        \* the webhook requests in flight, per slot
    sweep,      \* cleanupOldSessions: the pending store delete, if any
    areq,       \* the /api/actions requests in flight, per slot
    posted,     \* the number of /api/actions requests received
    sender,     \* the uid that the device of a session sends, NoUid when none
    heard,      \* history: per buffer object, the segments it took since it was last empty
    silenced,   \* history: per session, silence was detected and no 5 words ended it
    replies,    \* history: per session, the times of the last answers with status 200
    csrfTokens, \* the CSRF tokens kept, each with its uid and its expiry
    tokenLog,   \* history: every token issued, its uid, its time, how often accepted
    failedKeyAttempts,  \* per uid, the failed key validations and the lockout
    user_settings,      \* the rows of the table user_settings, per uid
    kreq,       \* the /api/omi requests in flight, per slot
    asked,      \* the number of /api/omi requests received
    failures,   \* history: per uid, the failed validations in a row, the third one's time
    chatdb,     \* the rows of jarvis_sessions that hold chats, per session id
    creq,       \* the POST /api/chat/message request in flight
    analytics,  \* column analytics of frienddb: per uid, the salutation kept
    preq,       \* the /api/preferences request in flight
    saved,      \* history: per uid, the salutation of the last POST answered 200
    ready,      \* Brain: the GET /readyz request in flight
    server      \* Brain: the HTTP server and the process

vars ==
    <<now, ticks, started, heap, buffers, sessions, frienddb, req, sweep, areq, posted,
      sender, heard, silenced, csrfTokens, tokenLog, failedKeyAttempts, user_settings,
      kreq, asked, failures, chatdb, creq, analytics, preq, saved, ready, server, replies>>

\* the state of the webhook, the sweep and the goals
baseVars ==
    <<now, ticks, started, heap, buffers, sessions, frienddb, req, sweep, areq, posted,
      sender, heard, silenced, replies>>

\* the state of the chat, of the preferences and of the Brain server
chatVars == <<chatdb, creq>>

prefVars == <<analytics, preq, saved>>

brainVars == <<ready, server>>

otherVars == <<chatVars, prefVars, brainVars>>

moreVars == <<replies, otherVars>>

\* the state of the key management of /api/omi
omiVars ==
    <<csrfTokens, tokenLog, failedKeyAttempts, user_settings, kreq, asked, failures>>

(***************************************************************************)
(* Bounds of the model.                                                    *)
(***************************************************************************)
MaxRequests == 3
MaxFaultRequests == 2
MaxRaceRequests == 2
MaxActionRequests == 3
MaxOmiRequests == 5
MaxTokens == 2
MaxLockoutTokens == 1
MaxCsrfRequests == 2
MaxGoalRequests == 3
MaxTicks == 2
MaxSegments == 2
TimeZero == 100

(***************************************************************************)
(* Constants of the program.                                               *)
(***************************************************************************)
ANALYSIS_INTERVAL == 30
silenceThreshold == 120
minWordsAfterSilence == 5
MergeWindow == 2
BufferMaxAge == 3600
RowMaxAgeMs == 86400000

Slots == {1, 2}
Sessions == {"S1", "S2"}
\* the session of the device that is heard in all runs; the device of any other
\* session sends no uid
MainSessions == {"S1"}
NoSession == ""
NoUid == ""
Uids == {"u1"}
NoRow == [present |-> FALSE]
NoObject == 0

(***************************************************************************)
(* Texts.                                                                  *)
(***************************************************************************)
IsSpace(c) == c \in {" ", "\t"}

LowerOf ==
    [c \in {"J", "A", "R", "V", "I", "S", "H", "Y"} |->
        CASE c = "J" -> "j" [] c = "A" -> "a" [] c = "R" -> "r" [] c = "V" -> "v"
          [] c = "I" -> "i" [] c = "S" -> "s" [] c = "H" -> "h" [] c = "Y" -> "y"]

\* String.prototype.toLowerCase
toLowerCase(t) ==
    [i \in 1..Len(t) |-> IF t[i] \in DOMAIN LowerOf THEN LowerOf[t[i]] ELSE t[i]]

RECURSIVE trimStart(_)
trimStart(t) ==
    IF t # <<>> /\ IsSpace(Head(t)) THEN trimStart(Tail(t)) ELSE t

RECURSIVE trimEnd(_)
trimEnd(t) ==
    IF t # <<>> /\ IsSpace(t[Len(t)]) THEN trimEnd(SubSeq(t, 1, Len(t) - 1)) ELSE t

\* String.prototype.trim
trim(t) == trimEnd(trimStart(t))

\* text.split(/\s+/).length of a trimmed, non-empty text: one piece more than
\* there are maximal runs of white space.
splitLength(t) ==
    Cardinality({i \in 1..(Len(t) - 1) : IsSpace(t[i]) /\ ~IsSpace(t[i + 1])}) + 1

\* /[jhy]arvis/.test(s)
matchesPattern(s) ==
    \E i \in 1..(Len(s) - 5) :
        /\ s[i] \in {"j", "h", "y"}
        /\ SubSeq(s, i + 1, i + 5) = <<"a", "r", "v", "i", "s">>

\* A variant of wakeWordTest that leaves the case of the text as it is.
wakeWordTestCaseSensitive(msg) == matchesPattern(msg.text)

\* the test of line 656 on one message
wakeWordTest(msg) == matchesPattern(toLowerCase(msg.text))

TextHarvis == <<" ", "o", "k", " ", "H", "A", "R", "V", "I", "S">>
TextFive == <<"a", " ", "b", "\t", " ", "c", " ", "d", " ", "e">>
TextBlank == <<" ", " ">>

\* A segment's start is 0 when the field is absent (or zero), and its is_user
\* FALSE when absent.  An absent text is skipped like an empty one (line 608).
Segment(text, start, is_user) == [text |-> text, start |-> start, is_user |-> is_user]

Segments ==
    {Segment(TextHarvis, 99, TRUE), Segment(TextFive, 0, FALSE),
     Segment(TextBlank, 0, TRUE)}

SegmentLists == UNION {[1..n -> Segments] : n \in 0..MaxSegments}

(***************************************************************************)
(* Timestamps of the store.                                                *)
(***************************************************************************)
\* new Date(seconds * 1000).toISOString(), as the milliseconds it denotes
toISOString(seconds) == seconds * 1000

\* new Date(iso).getTime() / 1000
getTimeSeconds(ms) == ms \div 1000

(***************************************************************************)
(* MessageBuffer: the buffer objects.                                      *)
(***************************************************************************)
\* the object literal of lines 284-290 and 304-310
NewBuffer(currentTime) ==
    [messages |-> <<>>,
     lastAnalysisTime |-> currentTime,
     lastActivity |-> currentTime,
     wordsAfterSilence |-> 0,
     silenceDetected |-> FALSE]

\* A variant of LoadedBuffer that leaves the messages of the row behind.
LoadedBufferEmpty(row, currentTime) == NewBuffer(currentTime)

\* the object literal of lines 275-281; a last_activity that parses to 0 is
\* replaced by the current time
LoadedBuffer(row, currentTime) ==
    [messages |-> row.messages,
     lastAnalysisTime |->
        IF getTimeSeconds(row.last_activity) # 0
        THEN getTimeSeconds(row.last_activity) ELSE currentTime,
     lastActivity |-> currentTime,
     wordsAfterSilence |-> 0,
     silenceDetected |-> FALSE]

\* getBuffer on a session that is in memory, lines 313-330
\* A variant of TouchBuffer that empties the buffer on every request.
TouchBufferForgetting(buffer, currentTime) ==
    [buffer EXCEPT !.messages = <<>>, !.lastActivity = currentTime]

\* A variant of TouchBuffer that keeps the count of words at a silence.
TouchBufferKeepingWords(buffer, currentTime) ==
    LET silent == currentTime - buffer.lastActivity > silenceThreshold
    IN  [buffer EXCEPT
            !.silenceDetected = IF silent THEN TRUE ELSE @,
            !.messages = IF silent THEN <<>> ELSE @,
            !.lastActivity = currentTime]

TouchBuffer(buffer, currentTime) ==
    LET timeSinceActivity == currentTime - buffer.lastActivity
        silent == timeSinceActivity > silenceThreshold
    IN  [buffer EXCEPT
            !.silenceDetected = IF silent THEN TRUE ELSE @,
            !.wordsAfterSilence = IF silent THEN 0 ELSE @,
            !.messages = IF silent THEN <<>> ELSE @,
            !.lastActivity = currentTime]

abs(x) == IF x < 0 THEN -x ELSE x

\* A variant of canAppend that does not compare the speaker flags.
canAppendAnySpeaker(buffer, timestamp, isUser) ==
    /\ Len(buffer.messages) > 0
    /\ abs(buffer.messages[Len(buffer.messages)].timestamp - timestamp) < MergeWindow

\* lines 627-631
canAppend(buffer, timestamp, isUser) ==
    /\ Len(buffer.messages) > 0
    /\ abs(buffer.messages[Len(buffer.messages)].timestamp - timestamp) < MergeWindow
    /\ buffer.messages[Len(buffer.messages)].is_user = isUser

\* A variant of CountWords that ends silence without resetting the timer.
CountWordsKeepingTimer(buffer, text, currentTime) ==
    IF ~buffer.silenceDetected THEN buffer
    ELSE LET words == buffer.wordsAfterSilence + splitLength(text)
         IN  IF words >= minWordsAfterSilence
             THEN [buffer EXCEPT !.wordsAfterSilence = words, !.silenceDetected = FALSE]
             ELSE [buffer EXCEPT !.wordsAfterSilence = words]

\* lines 615-625: the words of a segment received while silent
CountWords(buffer, text, currentTime) ==
    IF ~buffer.silenceDetected THEN buffer
    ELSE LET words == buffer.wordsAfterSilence + splitLength(text)
         IN  IF words >= minWordsAfterSilence
             THEN [buffer EXCEPT !.wordsAfterSilence = words,
                                 !.silenceDetected = FALSE,
                                 !.lastAnalysisTime = currentTime]
             ELSE [buffer EXCEPT !.wordsAfterSilence = words]

\* lines 633-641
AppendOrPush(buffer, text, timestamp, isUser) ==
    LET n == Len(buffer.messages)
    IN  IF canAppend(buffer, timestamp, isUser)
        THEN [buffer EXCEPT !.messages[n].text = @ \o <<" ">> \o text]
        ELSE [buffer EXCEPT !.messages =
                 Append(@, [text |-> text, timestamp |-> timestamp, is_user |-> isUser])]

\* one turn of the loop of lines 607-643
ProcessSegment(buffer, segment, currentTime) ==
    IF segment.text = <<>> THEN buffer
    ELSE LET text == trim(segment.text)
             timestamp == IF segment.start # 0 THEN segment.start ELSE currentTime
         IN  IF text = <<>> THEN buffer
             ELSE AppendOrPush(CountWords(buffer, text, currentTime),
                               text, timestamp, segment.is_user)

\* the loop of lines 607-643
RECURSIVE ProcessSegments(_, _, _)
ProcessSegments(buffer, segments, currentTime) ==
    IF segments = <<>> THEN buffer
    ELSE ProcessSegments(ProcessSegment(buffer, Head(segments), currentTime),
                         Tail(segments), currentTime)

\* Array.prototype.sort((a, b) => a.timestamp - b.timestamp): stable
RECURSIVE InsertByTimestamp(_, _)
InsertByTimestamp(sorted, msg) ==
    IF sorted = <<>> THEN <<msg>>
    ELSE IF sorted[Len(sorted)].timestamp <= msg.timestamp THEN Append(sorted, msg)
    ELSE Append(InsertByTimestamp(SubSeq(sorted, 1, Len(sorted) - 1), msg),
                sorted[Len(sorted)])

RECURSIVE SortByTimestampFrom(_, _)
SortByTimestampFrom(sorted, rest) ==
    IF rest = <<>> THEN sorted
    ELSE SortByTimestampFrom(InsertByTimestamp(sorted, Head(rest)), Tail(rest))

\* A variant of sortedMessages that leaves the messages in the order of the buffer.
sortedMessagesAsBuffered(messages) == messages

sortedMessages(messages) == SortByTimestampFrom(<<>>, messages)

\* createNotificationPrompt, lines 552-590: the lines of the discussion that
\* the prompt quotes, and the parameter list
createNotificationPrompt(messages) ==
    [kind |-> "notification",
     discussion |->
        [i \in 1..Len(messages) |->
            [text |-> messages[i].text,
             speaker |-> IF messages[i].is_user THEN "{{user_name}}" ELSE "other"]],
     params |-> <<"user_name", "user_facts", "user_conversations", "user_chat">>]

EmptyBody == [kind |-> "empty"]
ErrorBody == [kind |-> "message"]

\* the condition of lines 648-652
\* A variant of dueForAnalysis that does not look at the silence flag.
dueForAnalysisInSilence(timeSinceLastAnalysis, buffer) ==
    /\ timeSinceLastAnalysis >= ANALYSIS_INTERVAL
    /\ Len(buffer.messages) > 0

\* the condition of lines 648-652
dueForAnalysis(timeSinceLastAnalysis, buffer) ==
    /\ timeSinceLastAnalysis >= ANALYSIS_INTERVAL
    /\ Len(buffer.messages) > 0
    /\ ~buffer.silenceDetected

\* A variant of NotifyAndClear that leaves the messages in the buffer.
NotifyAndKeep(buffer, currentTime) == [buffer EXCEPT !.lastAnalysisTime = currentTime]

\* the wake-word branch, lines 657-660
\* A variant of NotifyAndClear that leaves lastAnalysisTime as it was.
NotifyAndClearOnly(buffer, currentTime) == [buffer EXCEPT !.messages = <<>>]

NotifyAndClear(buffer, currentTime) ==
    [buffer EXCEPT !.lastAnalysisTime = currentTime, !.messages = <<>>]

\* A variant of KeepSorted that empties the buffer, as the wake-word branch does.
KeepNothing(buffer, sorted) == [buffer EXCEPT !.messages = <<>>]

\* the branch without a wake word, lines 653 and 669-673: the messages stay,
\* in the order the sort of line 653 gave them
KeepSorted(buffer, sorted) == [buffer EXCEPT !.messages = sorted]

\* lines 645-678 up to the call of saveBuffer: the buffer as left, the status
\* and the body the handler will answer
Analyze(buffer, currentTime) ==
    LET timeSinceLastAnalysis == currentTime - buffer.lastAnalysisTime
        sorted == sortedMessages(buffer.messages)
    IN  IF dueForAnalysis(timeSinceLastAnalysis, buffer)
        THEN IF \E i \in 1..Len(sorted) : wakeWordTest(sorted[i])
             THEN [buffer |-> NotifyAndClear(buffer, currentTime),
                   status |-> 200,
                   body |-> createNotificationPrompt(sorted)]
             ELSE [buffer |-> KeepSorted(buffer, sorted),
                   status |-> 200,
                   body |-> EmptyBody]
        ELSE [buffer |-> buffer, status |-> 202, body |-> EmptyBody]

(***************************************************************************)
(* The store.                                                              *)
(***************************************************************************)
\* what a call on the store can do: be applied, resolve with an error (not
\* applied), or reject (not applied; the caller's catch runs)
StoreOutcomes == {"ok", "error", "throw"}

SessionRow(messages, uid, last_activity) ==
    [present |-> TRUE, messages |-> messages, uid |-> uid, last_activity |-> last_activity]

\* upsert of lines 293-299: insert, or on a conflict overwrite the columns given
UpsertSession(rows, sessionId, last_activity) ==
    [rows EXCEPT ![sessionId] =
        IF @.present THEN [@ EXCEPT !.messages = <<>>, !.last_activity = last_activity]
        ELSE SessionRow(<<>>, NoUid, last_activity)]

\* A variant of UpdateSession that inserts the row when there is none.
UpdateOrInsertSession(rows, sessionId, payload) ==
    [rows EXCEPT ![sessionId] =
        SessionRow(payload.messages, payload.uid, payload.last_activity)]

\* update ... eq('session_id', sessionId) of lines 364-371: no row, no write
UpdateSession(rows, sessionId, payload) ==
    [rows EXCEPT ![sessionId] =
        IF @.present
        THEN [@ EXCEPT !.messages = payload.messages,
                       !.uid = payload.uid,
                       !.last_activity = payload.last_activity]
        ELSE @]

\* A variant of EnsureFriend that overwrites the row it meets.
EnsureFriendOverwriting(rows, uid) == [rows EXCEPT ![uid] = [present |-> TRUE, goals |-> <<>>]]

\* upsert with ignoreDuplicates of lines 374-382
EnsureFriend(rows, uid) ==
    [rows EXCEPT ![uid] = IF @.present THEN @ ELSE [present |-> TRUE, goals |-> <<>>]]

\* A variant of DeleteOlderThan that deletes every row.
DeleteEveryRow(rows, cutoff) == [s \in DOMAIN rows |-> NoRow]

\* delete ... lt('last_activity', cutoffTime) of lines 351-354
DeleteOlderThan(rows, cutoff) ==
    [s \in DOMAIN rows |->
        IF rows[s].present /\ rows[s].last_activity < cutoff THEN NoRow ELSE rows[s]]

(***************************************************************************)
(* POST /webhook.                                                          *)
(***************************************************************************)
NoCheck ==
    [timeSinceLastAnalysis |-> 0, length |-> 0, silenceDetected |-> FALSE, messages |-> <<>>]
NoPayload == [messages |-> <<>>, uid |-> NoUid, last_activity |-> 0]

NoEntry == [length |-> 0, silenceDetected |-> FALSE, messages |-> <<>>, wordsAfterSilence |-> 0]

\* the handler's locals; timeSinceActivity is getBuffer's (line 314), check the
\* three operands of the condition of lines 648-652 as evaluated.  History:
\* entered is the buffer as getBuffer returned it, had the object that the map
\* held for the session when getBuffer was called, accepted tells that the
\* store has answered every call of the request without an error, found is
\* the row of frienddb that the upsert of saveBuffer met, wordsWere the
\* wordsAfterSilence of the buffer when getBuffer was called.
IdleRequest ==
    [pc |-> "idle", session_id |-> NoSession, uid |-> NoUid, segments |-> <<>>,
     currentTime |-> 0, bufferData |-> NoObject, sessionData |-> NoRow, had |-> NoObject,
     timeSinceActivity |-> 0, outcome |-> "ok", accepted |-> TRUE,
     entered |-> NoEntry, check |-> NoCheck, found |-> NoRow, wordsWere |-> 0,
     payload |-> NoPayload, status |-> 0, body |-> EmptyBody]

\* line 595: const uid = data.uid || sessionId
EffectiveUid(rq) == IF rq.uid # NoUid THEN rq.uid ELSE rq.session_id

\* saveBuffer up to its first await, lines 360-371: the update it sends, read
\* from the session's buffer in the map
SavePayload(h, b, rq) ==
    [messages |-> h[b[rq.session_id]].messages,
     uid |-> EffectiveUid(rq),
     last_activity |-> toISOString(h[b[rq.session_id]].lastActivity)]

\* History: the segments of a request that the loop of lines 607-643 does not
\* skip, with the timestamp and the speaker flag it gives each.
IsHeard(segment) == segment.text # <<>> /\ trim(segment.text) # <<>>

HeardOf(segments, currentTime) ==
    LET kept == SelectSeq(segments, IsHeard)
    IN  [i \in 1..Len(kept) |->
            [text |-> trim(kept[i].text),
             timestamp |-> IF kept[i].start # 0 THEN kept[i].start ELSE currentTime,
             is_user |-> kept[i].is_user]]

FreshHistory == [valid |-> TRUE, segs |-> <<>>]

\* History of the answers of a session: the requests answered 200 last and
\* before, at their times, with a notification or without; the time of the
\* request in which silence ended last, and what that time was when the
\* last 200 was answered.  -1 stands for none.
NoReplies ==
    [last200 |-> -1, notified |-> FALSE, prev200 |-> -1, prevNotified |-> FALSE,
     ended |-> -1, endedThen |-> -1]

\* the history after the step in which the request of slot r is answered
Replied(r) ==
    LET rq == req'[r]
    IN  IF rq.pc = "done" /\ rq # req[r] /\ rq.session_id # NoSession /\ rq.status # 0
        THEN LET old == replies[rq.session_id]
                 endsSilence == rq.entered.silenceDetected /\ ~rq.check.silenceDetected
                 seen == IF rq.status = 200
                         THEN [old EXCEPT !.prev200 = old.last200,
                                          !.prevNotified = old.notified,
                                          !.last200 = rq.currentTime,
                                          !.notified = rq.body.kind = "notification",
                                          !.endedThen = old.ended]
                         ELSE old
             IN  [replies EXCEPT ![rq.session_id] =
                     [seen EXCEPT !.ended = IF endsSilence THEN rq.currentTime
                                            ELSE old.ended]]
        ELSE replies

\* Lines 606-678 from the return of getBuffer to the first await of
\* saveBuffer, on the heap h and the map b that getBuffer left and with the
\* object it returned; hd and sil are the histories as getBuffer left them.
HandleSegments(r, rq, h, b, hd, sil, object) ==
    IF object = NoObject
    THEN \* bufferData is undefined: the handler throws, nothing is answered
         /\ heap' = h
         /\ buffers' = b
         /\ heard' = hd
         /\ silenced' = sil
         /\ req' = [req EXCEPT ![r] = [rq EXCEPT !.pc = "done", !.status = 0]]
    ELSE LET processed == ProcessSegments(h[object], rq.segments, rq.currentTime)
             result == Analyze(processed, rq.currentTime)
             h2 == [h EXCEPT ![object] = result.buffer]
             taken == [hd[object] EXCEPT
                          !.segs = @ \o HeardOf(rq.segments, rq.currentTime)]
             answered ==
                [rq EXCEPT
                    !.bufferData = object,
                    !.entered = [length |-> Len(h[object].messages),
                                 silenceDetected |-> h[object].silenceDetected,
                                 messages |-> h[object].messages,
                                 wordsAfterSilence |-> h[object].wordsAfterSilence],
                    !.check = [timeSinceLastAnalysis |->
                                    rq.currentTime - processed.lastAnalysisTime,
                               length |-> Len(processed.messages),
                               silenceDetected |-> processed.silenceDetected,
                               messages |-> processed.messages],
                    !.status = result.status,
                    !.body = result.body]
         IN  /\ heap' = h2
             /\ buffers' = b
             /\ heard' = [hd EXCEPT ![object] =
                    IF result.buffer.messages = <<>> THEN FreshHistory
                    ELSE IF result.buffer.messages # processed.messages
                    THEN [taken EXCEPT !.valid = FALSE]
                    ELSE taken]
             /\ silenced' = [sil EXCEPT ![rq.session_id] =
                    IF h[object].silenceDetected /\ ~processed.silenceDetected
                    THEN FALSE ELSE @]
             /\ req' = [req EXCEPT ![r] =
                    IF b[rq.session_id] # NoObject
                    THEN [answered EXCEPT !.pc = "update",
                                          !.payload = SavePayload(h2, b, rq)]
                    ELSE [answered EXCEPT !.pc = "done"]]

\* A variant of MissingSession that acknowledges the request.
MissingSessionAccepted == [IdleRequest EXCEPT !.pc = "done", !.status = 202]

\* lines 598-601: the request without session_id is answered and ends
MissingSession == [IdleRequest EXCEPT !.pc = "done", !.status = 400, !.body = ErrorBody]

\* Lines 592-604 and getBuffer up to its first await (lines 263-272, 312-333).
\* The requests fill the slots in order.
WebhookFor(r, ids, lists) ==
    /\ req[r].pc \in {"idle", "done"}
    /\ \A q \in Slots : q < r => req[q].pc \notin {"idle", "done"}
    /\ started' = started + 1
    /\ \E sessionId \in ids, segments \in lists :
        LET rq == [IdleRequest EXCEPT !.session_id = sessionId,
                                      !.uid = IF sessionId = NoSession THEN NoUid
                                              ELSE sender[sessionId],
                                      !.had = IF sessionId = NoSession THEN NoObject
                                              ELSE buffers[sessionId],
                                      !.segments = segments, !.currentTime = now]
        IN  IF sessionId = NoSession
            THEN /\ req' = [req EXCEPT ![r] = MissingSession]
                 /\ UNCHANGED <<heap, buffers, heard, silenced,
                   otherVars>>
            ELSE IF buffers[sessionId] = NoObject
            THEN /\ req' = [req EXCEPT ![r] = [rq EXCEPT !.pc = "select"]]
                 /\ UNCHANGED <<heap, buffers, heard, silenced,
                   otherVars>>
            ELSE LET object == buffers[sessionId]
                     touched == TouchBuffer(heap[object], now)
                     detected == now - heap[object].lastActivity > silenceThreshold
                 IN  HandleSegments(r,
                        [rq EXCEPT !.timeSinceActivity = now - heap[object].lastActivity,
                                   !.wordsWere = heap[object].wordsAfterSilence],
                        [heap EXCEPT ![object] = touched],
                        buffers,
                        IF detected THEN [heard EXCEPT ![object] = FreshHistory] ELSE heard,
                        IF detected THEN [silenced EXCEPT ![sessionId] = TRUE] ELSE silenced,
                        object)
    /\ UNCHANGED <<now, ticks, sessions, frienddb, sweep, areq, posted, sender, omiVars,
                   otherVars>>
    /\ replies' = Replied(r)

WebhookStart(r, lists) == WebhookFor(r, MainSessions \cup {NoSession}, lists)

\* the store answers the select of lines 268-272
StoreSelect(r, outcome) ==
    /\ req[r].pc = "select"
    /\ req' = [req EXCEPT ![r] =
            [@ EXCEPT !.pc = "selected",
                      !.outcome = outcome,
                      !.accepted = @ /\ outcome = "ok",
                      !.sessionData =
                          IF outcome = "ok" THEN sessions[req[r].session_id] ELSE NoRow]]
    /\ UNCHANGED <<now, ticks, started, heap, buffers, sessions, frienddb, sweep, areq, posted, sender, heard, silenced,
                   omiVars,
                   otherVars>>
    /\ replies' = Replied(r)

\* getBuffer resumes after the select: lines 274-311, and with a row found or
\* a rejected call, line 333 and the handler up to the first await of saveBuffer
GetBufferLoaded(r) ==
    LET rq == req[r]
        object == Len(heap) + 1
        b == [buffers EXCEPT ![rq.session_id] = object]
    IN  /\ rq.pc = "selected"
        /\ IF rq.outcome = "throw"
           THEN HandleSegments(r, rq, Append(heap, NewBuffer(rq.currentTime)), b,
                               Append(heard, FreshHistory), silenced, object)
           ELSE IF rq.sessionData.present
           THEN HandleSegments(r, rq,
                    Append(heap, LoadedBuffer(rq.sessionData, rq.currentTime)), b,
                    Append(heard, [valid |-> rq.sessionData.messages = <<>>,
                                   segs |-> <<>>]),
                    silenced, object)
           ELSE /\ heap' = Append(heap, NewBuffer(rq.currentTime))
                /\ buffers' = b
                /\ heard' = Append(heard, FreshHistory)
                /\ req' = [req EXCEPT ![r] = [rq EXCEPT !.pc = "upsert"]]
                /\ UNCHANGED silenced
        /\ UNCHANGED <<now, ticks, started, sessions, frienddb, sweep, areq, posted, sender,
                   omiVars,
                   otherVars>>
        /\ replies' = Replied(r)

\* the store answers the upsert of lines 293-299
StoreUpsert(r, outcome) ==
    /\ req[r].pc = "upsert"
    /\ req' = [req EXCEPT ![r] = [@ EXCEPT !.pc = "upserted", !.outcome = outcome,
                                         !.accepted = @ /\ outcome = "ok"]]
    /\ sessions' =
          IF outcome = "ok"
          THEN UpsertSession(sessions, req[r].session_id, toISOString(req[r].currentTime))
          ELSE sessions
    /\ UNCHANGED <<now, ticks, started, heap, buffers, frienddb, sweep, areq, posted, sender,
                   heard, silenced, omiVars,
                   otherVars>>
    /\ replies' = Replied(r)

\* getBuffer resumes after the upsert: the catch of lines 301-311 when the call
\* was rejected, the return of line 333, and the handler up to the first await
\* of saveBuffer
GetBufferCreated(r) ==
    LET rq == req[r]
        object == Len(heap) + 1
    IN  /\ rq.pc = "upserted"
        /\ IF rq.outcome = "throw"
           THEN HandleSegments(r, rq, Append(heap, NewBuffer(rq.currentTime)),
                               [buffers EXCEPT ![rq.session_id] = object],
                               Append(heard, FreshHistory), silenced, object)
           ELSE HandleSegments(r, rq, heap, buffers, heard, silenced,
                               buffers[rq.session_id])
        /\ UNCHANGED <<now, ticks, started, sessions, frienddb, sweep, areq, posted, sender,
                   omiVars,
                   otherVars>>
        /\ replies' = Replied(r)

\* A variant of SaveAnswered in which saveBuffer has no catch: the rejection
\* reaches the error handler of the application.
SaveAnsweredRethrown(rq, outcome) ==
    [rq EXCEPT !.pc = IF outcome = "throw" THEN "done" ELSE "friend",
               !.status = IF outcome = "throw" THEN 500 ELSE @,
               !.body = IF outcome = "throw" THEN ErrorBody ELSE @,
               !.outcome = outcome,
               !.accepted = @ /\ outcome = "ok"]

\* saveBuffer after the answer to its update, lines 372-386: the request as it
\* goes on
SaveAnswered(rq, outcome) ==
    [rq EXCEPT !.pc = IF outcome = "throw" THEN "done" ELSE "friend",
               !.outcome = outcome,
               !.accepted = @ /\ outcome = "ok"]

\* the store answers the update of lines 364-371, and saveBuffer resumes: a
\* rejected call ends saveBuffer in its catch and the handler answers, any other
\* sends the upsert of lines 374-382
StoreUpdate(r, outcome) ==
    /\ req[r].pc = "update"
    /\ req' = [req EXCEPT ![r] = SaveAnswered(@, outcome)]
    /\ sessions' =
          IF outcome = "ok"
          THEN UpdateSession(sessions, req[r].session_id, req[r].payload)
          ELSE sessions
    /\ UNCHANGED <<now, ticks, started, heap, buffers, frienddb, sweep, areq, posted, sender,
                   heard, silenced, omiVars,
                   otherVars>>
    /\ replies' = Replied(r)

\* the store answers the upsert of lines 374-382, saveBuffer returns and the
\* handler answers (lines 668, 672, 678)
StoreEnsureFriend(r, outcome) ==
    /\ req[r].pc = "friend"
    /\ req' = [req EXCEPT ![r] = [@ EXCEPT !.pc = "done", !.outcome = outcome,
                                         !.accepted = @ /\ outcome = "ok",
                                         !.found = IF outcome = "ok"
                                                   THEN frienddb[EffectiveUid(req[r])]
                                                   ELSE NoRow]]
    /\ frienddb' =
          IF outcome = "ok" THEN EnsureFriend(frienddb, EffectiveUid(req[r])) ELSE frienddb
    /\ UNCHANGED <<now, ticks, started, heap, buffers, sessions, sweep, areq, posted, sender,
                   heard, silenced, omiVars,
                   otherVars>>
    /\ replies' = Replied(r)

(***************************************************************************)
(* cleanupOldSessions, lines 336-358.  A sweep that finds nothing to       *)
(* remove changes nothing and is left out.                                 *)
(***************************************************************************)
NoSweep == -1

\* A variant of expiredSessions that takes every session with a buffer.
expiredSessionsAll(currentTime) == {s \in Sessions : buffers[s] # NoObject}

\* lines 338-341
expiredSessions(currentTime) ==
    {s \in Sessions :
        buffers[s] # NoObject /\ currentTime - heap[buffers[s]].lastActivity > BufferMaxAge}

\* lines 337-354, up to the await of the delete
CleanupOldSessions ==
    /\ sweep = NoSweep
    /\ \/ expiredSessions(now) # {}
       \/ \E s \in Sessions :
            sessions[s].present
                /\ sessions[s].last_activity < toISOString(now) - RowMaxAgeMs
    /\ buffers' = [s \in Sessions |->
                      IF s \in expiredSessions(now) THEN NoObject ELSE buffers[s]]
    /\ sweep' = toISOString(now) - RowMaxAgeMs
    /\ UNCHANGED <<now, ticks, started, heap, sessions, frienddb, req, areq, posted, sender,
                   heard, silenced, omiVars,
                   moreVars>>

\* the store answers the delete of lines 351-354
StoreDeleteOld(outcome) ==
    /\ sweep # NoSweep
    /\ sessions' = IF outcome = "ok" THEN DeleteOlderThan(sessions, sweep) ELSE sessions
    /\ sweep' = NoSweep
    /\ UNCHANGED <<now, ticks, started, heap, buffers, frienddb, req, areq, posted, sender,
                   heard, silenced, omiVars,
                   moreVars>>

(***************************************************************************)
(* The middleware of security-improvements.js: validateUid (lines 314-322  *)
(* of part_009), sanitizeUserInput (349-357) and validateAction (376-393). *)
(* A uid or a text is the sequence of its characters.                      *)
(***************************************************************************)
\* n times the character c
Chars(c, n) == [i \in 1..n |-> c]

\* the uid a request carries in its body, its query or its route: none, a
\* string, or a value that is no string (a number other than 0)
NoRawUid == [type |-> "undefined", chars |-> <<>>]

StringUid(chars) == [type |-> "string", chars |-> chars]

NumberUid == [type |-> "number", chars |-> <<>>]

\* the value counts as true in a condition
Truthy(v) == v.type = "number" \/ (v.type = "string" /\ v.chars # <<>>)

\* req.body.uid || req.query.uid || req.params.uid, line 315
RequestUid(body, query, params) ==
    IF Truthy(body) THEN body ELSE IF Truthy(query) THEN query ELSE params

\* A variant of validateUid that does not look at the length.
validateUidAnyLength(uid) == uid.type = "string"

\* validateUid, lines 316-318: the request goes on to the handler
validateUid(uid) ==
    /\ Truthy(uid)
    /\ uid.type = "string"
    /\ ~(Len(uid.chars) < 3)
    /\ ~(Len(uid.chars) > 50)

\* the characters of [a-zA-Z0-9-_]
UidCharacters ==
    {"a", "b", "c", "d", "e", "f", "g", "h", "i", "j", "k", "l", "m", "n", "o", "p", "q",
     "r", "s", "t", "u", "v", "w", "x", "y", "z",
     "A", "B", "C", "D", "E", "F", "G", "H", "I", "J", "K", "L", "M", "N", "O", "P", "Q",
     "R", "S", "T", "U", "V", "W", "X", "Y", "Z",
     "0", "1", "2", "3", "4", "5", "6", "7", "8", "9", "-", "_"}

IsUidCharacter(c) == c \in UidCharacters

\* uid.replace(/[^a-zA-Z0-9-_]/g, ''), line 320
sanitizeUid(chars) == SelectSeq(chars, IsUidCharacter)

\* the characters of the uids that name the rows of the store
UidText == ("u1" :> <<"u", "-", "1">>) @@ ("u2" :> Chars("u", 50))

\* the row of every other uid
OtherUid == "u0"

\* the row that the characters of req.uid name
UidNamed(chars) ==
    IF \E u \in DOMAIN UidText : UidText[u] = chars
    THEN CHOOSE u \in DOMAIN UidText : UidText[u] = chars
    ELSE OtherUid

\* no type in the body
NoType == ""

validTypes == {"task", "reminder", "goal", "event", "note"}

\* A variant of validateAction that takes every type.
validateActionAnyType(type, text) == text # <<>> /\ ~(Len(text) > 500)

\* validateAction, lines 377-386: the request goes on to the handler
validateAction(type, text) ==
    /\ text # <<>>
    /\ ~(Len(text) > 500)
    /\ ~(type # NoType /\ type \notin validTypes)

IsKeptInput(c) == c \notin {"<", ">", "'", "\""}

\* sanitizeUserInput, lines 349-357
sanitizeUserInput(text) ==
    LET trimmed == trim(SelectSeq(text, IsKeptInput))
    IN  SubSeq(trimmed, 1, IF Len(trimmed) < 5000 THEN Len(trimmed) ELSE 5000)

(***************************************************************************)
(* POST /api/actions, lines 1350-1397, PUT /api/actions/:id, lines         *)
(* 1422-1461, and DELETE /api/actions/:id, lines 1464-1495.  The id of a   *)
(* route is the decimal text of a number: String(g.id) === String(id) is   *)
(* the equality of the numbers.                                            *)
(***************************************************************************)
GoalTexts == {<<"g", "1">>, <<"g", "2">>}

NoGoal ==
    [id |-> 0, type |-> "", text |-> <<>>, completed |-> FALSE, created_at |-> 0,
     completed_at |-> 0]

\* the handler's locals: req_uid is req.uid as validateUid leaves it, uid the
\* row it names; stale is history: a write of another request landed on the
\* row after this request read it
IdleAction ==
    [pc |-> "idle", op |-> "post", body_uid |-> NoRawUid, query_uid |-> NoRawUid,
     req_uid |-> <<>>, uid |-> NoUid, type |-> NoType, text |-> <<>>, id |-> 0, completed |-> FALSE,
     userData |-> NoRow, newGoal |-> NoGoal,
     write |-> "", goals |-> <<>>, stale |-> FALSE, outcome |-> "ok", status |-> 0]

\* A variant of DateNow that counts in steps of two seconds.
DateNowCoarse(seconds) == (seconds \div 2) * 2000

\* Date.now(), in milliseconds
DateNow(seconds) == seconds * 1000

\* lines 1364-1372
NewGoal(type, text, seconds) ==
    [id |-> DateNow(seconds), type |-> IF type = NoType THEN "task" ELSE type,
     text |-> text, completed |-> FALSE, created_at |-> toISOString(seconds),
     completed_at |-> 0]

\* A variant of GoalsToWrite that forgets the goals read.
GoalsToWriteAlone(userData, newGoal) == <<newGoal>>

\* lines 1363, 1375-1378 and 1384: the goals the handler writes
GoalsToWrite(userData, newGoal) ==
    IF userData.present THEN Append(userData.goals, newGoal) ELSE <<newGoal>>

\* validateUid, validateAction for a POST, and the handler up to the await of
\* its select (lines 1350-1361, 1422-1437, 1464-1479)
StartAction(r, op, bodies, queries, types, texts, ids, flags) ==
    /\ areq[r].pc \in {"idle", "done"}
    /\ posted' = posted + 1
    /\ \E body \in bodies, query \in queries, type \in types, text \in texts,
          id \in ids, completed \in flags :
          LET uid == RequestUid(body, query, NoRawUid)
              rq == [IdleAction EXCEPT !.op = op, !.body_uid = body, !.query_uid = query,
                                       !.type = type, !.text = text, !.id = id,
                                       !.completed = completed]
          IN  areq' = [areq EXCEPT ![r] =
                  IF ~validateUid(uid)
                  THEN [rq EXCEPT !.pc = "done", !.status = 400]
                  ELSE IF op = "post" /\ ~validateAction(type, text)
                  THEN [rq EXCEPT !.pc = "done", !.status = 400]
                  ELSE [rq EXCEPT !.pc = "select",
                                  !.req_uid = sanitizeUid(uid.chars),
                                  !.uid = UidNamed(sanitizeUid(uid.chars)),
                                  !.type = IF op = "post" /\ type = NoType THEN "task" ELSE type,
                                  !.text = IF op = "post" THEN sanitizeUserInput(text)
                                           ELSE text]]
    /\ UNCHANGED <<now, ticks, started, heap, buffers, sessions, frienddb, req, sweep,
                   sender, heard, silenced, omiVars,
                   moreVars>>

\* POST /api/actions of a stored uid with a text and no type
PostAction(r) ==
    StartAction(r, "post", {StringUid(UidText[u]) : u \in Uids}, {NoRawUid}, {NoType},
                GoalTexts, {0}, {FALSE})

\* A variant of findIndex that finds the first goal, whatever its id.
findIndexAny(goals, id) == IF goals = <<>> THEN 0 ELSE 1

\* goals.findIndex(g => String(g.id) === String(id)), counted from 1; 0 for
\* no such goal
findIndex(goals, id) ==
    IF \E i \in 1..Len(goals) : goals[i].id = id
    THEN CHOOSE i \in 1..Len(goals) :
            goals[i].id = id /\ \A j \in 1..(i - 1) : goals[j].id # id
    ELSE 0

\* lines 1443-1444: the goals with the one found marked
MarkCompleted(goals, goalIndex, completed, seconds) ==
    [goals EXCEPT ![goalIndex] =
        [@ EXCEPT !.completed = completed,
                  !.completed_at = IF completed THEN DateNow(seconds) ELSE 0]]

\* A variant of FilterGoals that keeps every goal.
FilterGoalsKeepingAll(goals, id) == goals

\* goals.filter(g => String(g.id) !== String(id)), line 1481
FilterGoals(goals, id) ==
    LET Other(g) == g.id # id
    IN  SelectSeq(goals, Other)

\* the store answers the select and the handler resumes up to the await of
\* its write (POST: lines 1363-1388, PUT: 1439-1451, DELETE: 1481-1487) or,
\* for a PUT that finds no goal, answers 404 (line 1455); a rejected call
\* ends in the catch
ActionSelected(r, outcome) ==
    /\ areq[r].pc = "select"
    /\ areq' = [areq EXCEPT ![r] =
          IF outcome = "throw"
          THEN [@ EXCEPT !.pc = "done", !.outcome = outcome, !.status = 500]
          ELSE LET userData == IF outcome = "ok" THEN frienddb[areq[r].uid] ELSE NoRow
                   goals == IF userData.present THEN userData.goals ELSE <<>>
                   newGoal == NewGoal(areq[r].type, areq[r].text, now)
                   goalIndex == findIndex(goals, areq[r].id)
                   marked == MarkCompleted(goals, goalIndex, areq[r].completed, now)
               IN  IF areq[r].op = "post"
                   THEN [@ EXCEPT !.pc = "write",
                                  !.outcome = outcome,
                                  !.userData = userData,
                                  !.newGoal = newGoal,
                                  !.write = IF userData.present THEN "update" ELSE "upsert",
                                  !.goals = GoalsToWrite(userData, newGoal)]
                   ELSE IF areq[r].op = "delete"
                   THEN [@ EXCEPT !.pc = "write", !.outcome = outcome,
                                  !.userData = userData, !.write = "update",
                                  !.goals = FilterGoals(goals, areq[r].id)]
                   ELSE IF goalIndex # 0
                   THEN [@ EXCEPT !.pc = "write", !.outcome = outcome,
                                  !.userData = userData, !.write = "update",
                                  !.newGoal = marked[goalIndex],
                                  !.goals = marked]
                   ELSE [@ EXCEPT !.pc = "done", !.outcome = outcome,
                                  !.userData = userData, !.status = 404]]
    /\ UNCHANGED <<now, ticks, started, heap, buffers, sessions, frienddb, req, sweep,
                   posted, sender, heard, silenced, omiVars,
                   moreVars>>

\* upsert of lines 1376-1378 and update of lines 1385-1388, 1447-1450 and
\* 1485-1488
WriteGoals(rows, uid, write, goals) ==
    [rows EXCEPT ![uid] =
        IF write = "upsert" \/ @.present THEN [present |-> TRUE, goals |-> goals] ELSE @]

\* the store answers the write and the handler answers (lines 1379-1380,
\* 1390-1396, 1451-1453, 1489-1494)
ActionWritten(r, outcome) ==
    /\ areq[r].pc = "write"
    /\ frienddb' =
          IF outcome = "ok"
          THEN WriteGoals(frienddb, areq[r].uid, areq[r].write, areq[r].goals)
          ELSE frienddb
    /\ areq' = [q \in Slots |->
          IF q = r
          THEN [areq[q] EXCEPT !.pc = "done", !.outcome = outcome,
                               !.status = IF outcome = "ok" THEN 200 ELSE 500]
          ELSE IF outcome = "ok" /\ areq[q].pc = "write" /\ areq[q].uid = areq[r].uid
          THEN [areq[q] EXCEPT !.stale = TRUE]
          ELSE areq[q]]
    /\ UNCHANGED <<now, ticks, started, heap, buffers, sessions, req, sweep, posted,
                   sender, heard, silenced, omiVars,
                   moreVars>>

(***************************************************************************)
(* CSRF tokens and failed key attempts, lines 54-116.  Times are in        *)
(* milliseconds.                                                           *)
(***************************************************************************)
CSRF_TOKEN_TTL == 15 * 60 * 1000
MAX_FAILED_ATTEMPTS == 3
LOCKOUT_DURATION == 30 * 60 * 1000

OmiUids == {"u1", "u2"}

\* no header x-csrf-token; the tokens issued are numbered from 1
NoToken == 0

\* generateCsrfToken, lines 59-72: the map with the new token, without the
\* tokens that have expired
generateCsrfToken(tokens, uid, token, nowMs) ==
    {t \in tokens \cup {[uid |-> uid, token |-> token, expiry |-> nowMs + CSRF_TOKEN_TTL]} :
        ~(t.expiry < nowMs)}

\* csrfTokens.get(`${uid}:${token}`), line 76
csrfEntries(tokens, uid, token) == {t \in tokens : t.uid = uid /\ t.token = token}

\* A variant of validCsrfToken that does not look at the uid.
validCsrfTokenAnyUid(tokens, uid, token, nowMs) ==
    \E t \in tokens : t.token = token /\ ~(t.expiry < nowMs)

\* validateCsrfToken, lines 74-85: its result
validCsrfToken(tokens, uid, token, nowMs) ==
    \E t \in csrfEntries(tokens, uid, token) : ~(t.expiry < nowMs)

\* validateCsrfToken, lines 82-83: the map after a token was found valid
consumeCsrfToken(tokens, uid, token) == tokens \ csrfEntries(tokens, uid, token)

\* failedKeyAttempts.get(uid) || { count: 0, lockedUntil: 0 }
NoAttempts == [count |-> 0, lockedUntil |-> 0]

\* trackFailedKeyAttempt, lines 92-107: the entry of the uid afterwards
trackFailedKeyAttempt(attempts, nowMs) ==
    IF nowMs < attempts.lockedUntil THEN attempts
    ELSE IF attempts.count + 1 >= MAX_FAILED_ATTEMPTS
    THEN [count |-> 0, lockedUntil |-> nowMs + LOCKOUT_DURATION]
    ELSE [attempts EXCEPT !.count = @ + 1]

\* A variant of isLockedOut that locks nobody out.
isLockedOutNever(attempts, nowMs) == FALSE

\* isLockedOut, lines 113-116
isLockedOut(attempts, nowMs) == nowMs < attempts.lockedUntil

(***************************************************************************)
(* validateOmiApiKey.  A key is its prefix and the number of letters and   *)
(* digits that follow it; NoKey is no api_key in the body.                 *)
(***************************************************************************)
NoKey == [prefix |-> "", length |-> 0]
OmiKey(prefix, length) == [prefix |-> prefix, length |-> length]

\* A variant of validateOmiApiKey that takes any key.
validateOmiApiKeyAny(key) == TRUE

validateOmiApiKey(key) ==
    \/ key.prefix = "sk_" /\ key.length \in 32..64
    \/ key.prefix = "omi_mcp_" /\ key.length \in 16..64
    \/ key.prefix = "omi_" /\ key.length \in 24..64

OmiKeys == {NoKey, OmiKey("sk_", 31), OmiKey("sk_", 32)}

(***************************************************************************)
(* GET /api/csrf-token, POST and DELETE /api/omi/key, PATCH                *)
(* /api/omi/toggle, lines 799-987.  validateUid has passed.                *)
(***************************************************************************)
\* History of the failed validations of a uid: streak counts those in a row
\* since the last successful one or the last third one, lockedFrom is the time
\* of the last third one (negative when there was none).  A failure in the 30
\* minutes after a third one is not counted.
NoFailures == [streak |-> 0, lockedFrom |-> -1]

Barred(f, nowMs) == f.lockedFrom >= 0 /\ nowMs < f.lockedFrom + 30 * 60 * 1000

Failed(f, nowMs) ==
    IF Barred(f, nowMs) THEN f
    ELSE IF f.streak = 2 THEN [streak |-> 0, lockedFrom |-> nowMs]
    ELSE [f EXCEPT !.streak = @ + 1]

Succeeded(f) == [f EXCEPT !.streak = 0]

\* the handler's locals; history: barred tells that the request came in the 30
\* minutes after a third failed validation in a row, passedCsrf tells that the request has
\* presented a token found valid, fetched that it has called the upstream API
IdleOmi ==
    [pc |-> "idle", op |-> "", uid |-> "", token |-> NoToken, api_key |-> NoKey,
     test_only |-> FALSE, enabled |-> FALSE, at |-> 0, barred |-> FALSE,
     passedCsrf |-> FALSE,
     fetched |-> FALSE, outcome |-> "ok", status |-> 0]

NoSettings == [present |-> FALSE]

\* Date.now()
NowMs == now * 1000

\* GET /api/csrf-token, lines 814-817
GetCsrfToken(uids) ==
    /\ \E uid \in uids :
          LET token == Len(tokenLog) + 1
          IN  /\ csrfTokens' = generateCsrfToken(csrfTokens, uid, token, NowMs)
              /\ tokenLog' = Append(tokenLog, [uid |-> uid, at |-> NowMs, accepted |-> 0])
    /\ UNCHANGED <<now, ticks, started, heap, buffers, sessions, frienddb, req, sweep, areq,
                   posted, sender, heard, silenced, failedKeyAttempts, user_settings,
                   kreq, asked, failures,
                   moreVars>>

\* the request that went through validateCsrfToken with the result valid:
\* the map and the history afterwards
CsrfChecked(rq, valid) ==
    /\ csrfTokens' = IF valid THEN consumeCsrfToken(csrfTokens, rq.uid, rq.token)
                     ELSE csrfTokens
    /\ tokenLog' = IF valid THEN [tokenLog EXCEPT ![rq.token].accepted = @ + 1]
                   ELSE tokenLog

\* POST /api/omi/key up to the await of the call of the upstream API,
\* lines 852-885.  The requests fill the slots in order.
PostOmiKey(r, uids, keys, tests) ==
    /\ kreq[r].pc \in {"idle", "done"}
    /\ \A q \in Slots : q < r => kreq[q].pc \notin {"idle", "done"}
    /\ asked' = asked + 1
    /\ \E uid \in uids, token \in 0..Len(tokenLog), api_key \in keys, test_only \in tests :
        LET rq == [IdleOmi EXCEPT !.op = "key", !.uid = uid, !.token = token,
                                  !.api_key = api_key, !.test_only = test_only,
                                  !.barred = Barred(failures[uid], NowMs)]
            valid == validCsrfToken(csrfTokens, uid, token, NowMs)
        IN  IF ~test_only /\ ~valid
            THEN /\ kreq' = [kreq EXCEPT ![r] = [rq EXCEPT !.pc = "done", !.status = 403]]
                 /\ UNCHANGED <<csrfTokens, tokenLog, failedKeyAttempts, failures>>
            ELSE /\ CsrfChecked(rq, ~test_only)
                 /\ LET passed == [rq EXCEPT !.passedCsrf = ~test_only]
                    IN  IF isLockedOut(failedKeyAttempts[uid], NowMs)
                        THEN /\ kreq' = [kreq EXCEPT ![r] =
                                    [passed EXCEPT !.pc = "done", !.status = 429]]
                             /\ UNCHANGED <<failedKeyAttempts, failures>>
                        ELSE IF api_key = NoKey
                        THEN /\ kreq' = [kreq EXCEPT ![r] =
                                    [passed EXCEPT !.pc = "done", !.status = 400]]
                             /\ UNCHANGED <<failedKeyAttempts, failures>>
                        ELSE IF ~validateOmiApiKey(api_key)
                        THEN /\ kreq' = [kreq EXCEPT ![r] =
                                    [passed EXCEPT !.pc = "done", !.status = 400]]
                             /\ failedKeyAttempts' = [failedKeyAttempts EXCEPT ![uid] =
                                    trackFailedKeyAttempt(@, NowMs)]
                             /\ failures' = [failures EXCEPT ![uid] = Failed(@, NowMs)]
                        ELSE /\ kreq' = [kreq EXCEPT ![r] =
                                    [passed EXCEPT !.pc = "fetch", !.fetched = TRUE]]
                             /\ UNCHANGED <<failedKeyAttempts, failures>>
    /\ UNCHANGED <<now, ticks, started, heap, buffers, sessions, frienddb, req, sweep, areq,
                   posted, sender, heard, silenced, user_settings,
                   moreVars>>

\* the upstream API answers (ok, not ok, or the call is rejected) and the
\* handler resumes up to the await of the upsert, lines 886-918 and 927-930
UpstreamAnswered(r, outcome) ==
    /\ kreq[r].pc = "fetch"
    /\ kreq' = [kreq EXCEPT ![r] =
          IF outcome = "throw"
          THEN [@ EXCEPT !.pc = "done", !.outcome = outcome, !.status = 500]
          ELSE IF outcome = "error"
          THEN [@ EXCEPT !.pc = "done", !.outcome = outcome, !.status = 400]
          ELSE IF @.test_only
          THEN [@ EXCEPT !.pc = "done", !.outcome = outcome, !.status = 200]
          ELSE [@ EXCEPT !.pc = "upsert", !.outcome = outcome, !.at = NowMs]]
    /\ failedKeyAttempts' = [failedKeyAttempts EXCEPT ![kreq[r].uid] =
          IF outcome = "throw" THEN @
          ELSE IF outcome = "error" THEN trackFailedKeyAttempt(@, NowMs)
          ELSE NoAttempts]
    /\ failures' = [failures EXCEPT ![kreq[r].uid] =
          IF outcome = "throw" THEN @
          ELSE IF outcome = "error" THEN Failed(@, NowMs)
          ELSE Succeeded(@)]
    /\ UNCHANGED <<now, ticks, started, heap, buffers, sessions, frienddb, req, sweep, areq,
                   posted, sender, heard, silenced, csrfTokens, tokenLog, user_settings,
                   asked,
                   moreVars>>

\* encrypt of encryption.js, lines 22-45: null for no text, else the payload
\* v1:salt:iv:ciphertext:tag, which only decrypt turns back into the text
encrypt(plainText) ==
    IF plainText = NoKey THEN NoKey ELSE [prefix |-> "v1", length |-> 5, of |-> plainText]

\* upsert of lines 910-917, onConflict uid
UpsertKey(rows, uid, api_key, at) ==
    [rows EXCEPT ![uid] =
        [present |-> TRUE, omi_api_key_encrypted |-> encrypt(api_key),
         omi_enabled |-> TRUE, key_added_at |-> at]]

\* the store answers the upsert and the handler answers, lines 919-926
KeyUpserted(r, outcome) ==
    /\ kreq[r].pc = "upsert"
    /\ user_settings' =
          IF outcome = "ok"
          THEN UpsertKey(user_settings, kreq[r].uid, kreq[r].api_key, kreq[r].at)
          ELSE user_settings
    /\ kreq' = [kreq EXCEPT ![r] =
          [@ EXCEPT !.pc = "done", !.outcome = outcome,
                    !.status = IF outcome = "ok" THEN 200 ELSE 500]]
    /\ UNCHANGED <<now, ticks, started, heap, buffers, sessions, frienddb, req, sweep, areq,
                   posted, sender, heard, silenced, csrfTokens, tokenLog, failedKeyAttempts,
                   asked, failures,
                   moreVars>>

\* requireCsrf, lines 802-811, and DELETE /api/omi/key or PATCH
\* /api/omi/toggle up to the await of the update, lines 933-945 and 962-971
GuardedOmi(r, op, uids, flags) ==
    /\ kreq[r].pc \in {"idle", "done"}
    /\ \A q \in Slots : q < r => kreq[q].pc \notin {"idle", "done"}
    /\ asked' = asked + 1
    /\ \E uid \in uids, token \in 0..Len(tokenLog), enabled \in flags :
        LET rq == [IdleOmi EXCEPT !.op = op, !.uid = uid, !.token = token,
                                  !.enabled = enabled]
            valid == token # NoToken /\ validCsrfToken(csrfTokens, uid, token, NowMs)
        IN  /\ CsrfChecked(rq, valid)
            /\ kreq' = [kreq EXCEPT ![r] =
                  IF valid THEN [rq EXCEPT !.pc = "update", !.passedCsrf = TRUE]
                  ELSE [rq EXCEPT !.pc = "done", !.status = 403]]
    /\ UNCHANGED <<now, ticks, started, heap, buffers, sessions, frienddb, req, sweep, areq,
                   posted, sender, heard, silenced, failedKeyAttempts, user_settings,
                   failures,
                   moreVars>>

DeleteOmiKey(r, uids) == GuardedOmi(r, "delete", uids, {FALSE})

PatchOmiToggle(r, uids) == GuardedOmi(r, "toggle", uids, BOOLEAN)

\* update ... eq('uid', uid) of lines 938-946 and 968-971: no row, no write
UpdateSettings(rows, rq) ==
    [rows EXCEPT ![rq.uid] =
        IF ~@.present THEN @
        ELSE IF rq.op = "delete"
        THEN [@ EXCEPT !.omi_api_key_encrypted = NoKey, !.omi_enabled = FALSE, !.key_added_at = 0]
        ELSE [@ EXCEPT !.omi_enabled = rq.enabled]]

\* the store answers the update and the handler answers, lines 948-958 and
\* 973-986
SettingsUpdated(r, outcome) ==
    /\ kreq[r].pc = "update"
    /\ user_settings' =
          IF outcome = "ok" THEN UpdateSettings(user_settings, kreq[r]) ELSE user_settings
    /\ kreq' = [kreq EXCEPT ![r] =
          [@ EXCEPT !.pc = "done", !.outcome = outcome,
                    !.status = IF outcome = "ok" THEN 200 ELSE 500]]
    /\ UNCHANGED <<now, ticks, started, heap, buffers, sessions, frienddb, req, sweep, areq,
                   posted, sender, heard, silenced, csrfTokens, tokenLog, failedKeyAttempts,
                   asked, failures,
                   moreVars>>

\* time passes between the requests on /api/omi and while they wait
OmiWait(deltas) ==
    /\ ticks < MaxTicks
    /\ \E d \in deltas : now' = now + d
    /\ ticks' = ticks + 1
    /\ UNCHANGED <<started, heap, buffers, sessions, frienddb, req, sweep, areq, posted,
                   sender, heard, silenced, omiVars,
                   moreVars>>

(***************************************************************************)
(* The chat: getOrCreateChatSession (lines 400-423), getJarvisSalutation   *)
(* (426-437), generateAssistantReply (439-550) and POST /api/chat/message  *)
(* (1286-1347).  validateUid and the rate limiter have passed; the tools   *)
(* of TOOL_CALLING_ENABLED are not set.                                    *)
(***************************************************************************)
\* the id of a chat session: one that the client sends, or the one of
\* newChatSessionId, line 397, whose stamp is the clock in base 36
NoChatId == [prefix |-> "", uid |-> "", stamp |-> 0]

ClientChatId == [prefix |-> "c1", uid |-> "", stamp |-> 0]

newChatSessionId(uid, seconds) == [prefix |-> "CHAT", uid |-> uid, stamp |-> seconds * 1000]

ChatIds == {ClientChatId} \cup {newChatSessionId(u, t) : u \in {"u1"}, t \in 0..TimeZero + 4}

\* the providers in the order of generateAssistantReply, and the variable of
\* the environment that configures each of them
Providers == <<"ollama", "omi", "openrouter">>

ProviderNames == {Providers[i] : i \in 1..Len(Providers)}

\* what a provider does with a call: it answers ok with a content, ok with a
\* body without content, ok with a body that is no JSON, not ok, or the call
\* is rejected
ProviderOutcomes == {"ok", "empty", "garbled", "error", "throw"}

\* the texts of the program
TextSir == <<"s", "i", "r">>

TextHowMayI == <<"H", "o", "w", " ", "m", "a", "y", " ", "I", " ", "a", "s", "s", "i", "s", "t", " ", "y", "o", "u", "?">>

TextAcknowledged == <<"A", "c", "k", "n", "o", "w", "l", "e", "d", "g", "e", "d", ".">>

TextUnderstood == <<"U", "n", "d", "e", "r", "s", "t", "o", "o", "d", ".", " ", "L", "e", "t", "'", "s", " ", "c", "o", "n", "t", "i", "n", "u", "e", ".">>

TextCertainly(salutation) == <<"C", "e", "r", "t", "a", "i", "n", "l", "y", ",", " ">> \o salutation \o <<".">>

TextAsYouWish(salutation) == <<"A", "s", " ", "y", "o", "u", " ", "w", "i", "s", "h", ",", " ">> \o salutation \o <<".">>

\* the content of a provider's answer: the provider's name would do, the
\* third one carries a markup token
ContentOf ==
    [p \in ProviderNames |->
        CASE p = "ollama" -> <<"o", "l">>
          [] p = "omi" -> <<"o", "m">>
          [] p = "openrouter" -> <<" ", "<", "|", "e", "|", ">", "o", "r">>]

\* the index of the first > of the text, 0 when there is none
FirstClose(t) ==
    IF \E i \in 1..Len(t) : t[i] = ">"
    THEN CHOOSE i \in 1..Len(t) : t[i] = ">" /\ \A j \in 1..(i - 1) : t[j] # ">"
    ELSE 0

\* content.replace(/<\|[^>]*\|>/g, ''), line 540
RECURSIVE stripMarkup(_)
stripMarkup(t) ==
    IF t = <<>> THEN t
    ELSE LET close == FirstClose(t)
         IN  IF /\ Len(t) >= 4 /\ t[1] = "<" /\ t[2] = "|"
                /\ close >= 4 /\ t[close - 1] = "|"
             THEN stripMarkup(SubSeq(t, close + 1, Len(t)))
             ELSE <<Head(t)>> \o stripMarkup(Tail(t))

\* buildJarvisSystemPrompt, lines 15-40: the persona and the salutation
NoPrompt == [persona |-> "", salutation |-> <<>>]

buildJarvisSystemPrompt(salutation) == [persona |-> "JARVIS", salutation |-> salutation]

\* A variant of sliceLast that takes every message.
sliceLastAll(messages, n) == messages

\* messages.slice(-n)
sliceLast(messages, n) ==
    IF Len(messages) <= n THEN messages
    ELSE SubSeq(messages, Len(messages) - n + 1, Len(messages))

\* m => ({ role: m.is_user ? 'user' : 'assistant', content: m.text })
RoleAndContent(messages) ==
    [i \in 1..Len(messages) |->
        [role |-> IF messages[i].is_user THEN "user" ELSE "assistant",
         content |-> messages[i].text]]

\* the body of the call of a provider: lines 455-466, 488-494 and 519-533
ProviderPayload(provider, messages, uid, salutation) ==
    IF provider = "omi"
    THEN [provider |-> provider, uid |-> uid, system |-> NoPrompt,
          messages |-> RoleAndContent(messages)]
    ELSE [provider |-> provider, uid |-> NoUid,
          system |-> buildJarvisSystemPrompt(salutation),
          messages |-> RoleAndContent(sliceLast(messages, 10))]

\* the answer of a provider is one that the function returns from (lines
\* 468-472, 497-500, 536-542)
Returns(provider, outcome) ==
    \/ outcome = "ok"
    \/ outcome = "empty" /\ provider # "ollama"

\* what the function returns then
ReplyOf(provider, outcome, salutation) ==
    CASE provider = "ollama" -> ContentOf[provider]
      [] provider = "omi" ->
            IF outcome = "ok" THEN ContentOf[provider] ELSE TextCertainly(salutation)
      [] provider = "openrouter" ->
            trim(stripMarkup(IF outcome = "ok" THEN ContentOf[provider]
                             ELSE TextAsYouWish(salutation)))

\* A variant of NextProvider that starts at the last provider.
NextProviderLastFirst(after, env) ==
    IF after = 0 /\ Providers[Len(Providers)] \in env THEN Len(Providers) ELSE 0

\* the next provider that is configured, after the one of the index; 0 when
\* there is none (lines 445, 480, 507)
NextProvider(after, env) ==
    IF \E i \in (after + 1)..Len(Providers) : Providers[i] \in env
    THEN CHOOSE i \in (after + 1)..Len(Providers) :
            Providers[i] \in env /\ \A j \in (after + 1)..(i - 1) : Providers[j] \notin env
    ELSE 0

\* a message of a chat; the timestamp is in tenths of a second
ChatMessage(text, tenths, is_user) == [text |-> text, timestamp |-> tenths, is_user |-> is_user]

\* the messages of a chat that n earlier messages have left, the user's and
\* the assistant's in turn
EarlierMessages(n) ==
    [i \in 1..n |-> ChatMessage(<<"m">>, i, i % 2 = 1)]

NoChat == [present |-> FALSE]

ChatRow(uid, messages, ms) ==
    [present |-> TRUE, uid |-> uid, messages |-> messages, last_activity |-> ms]

\* validateTextInput, lines 325-337 of security-improvements.js: req.sanitizedText
sanitizedText(text) ==
    LET kept(c) == c \notin {"<", ">"}
        trimmed == trim(SelectSeq(text, kept))
    IN  SubSeq(trimmed, 1, IF Len(trimmed) < 5000 THEN Len(trimmed) ELSE 5000)

\* the handler's locals; attempts are the calls of providers made so far,
\* answers what the providers did with them, count the requests so far
IdleChat ==
    [pc |-> "idle", uid |-> NoUid, body_text |-> <<>>, text |-> <<>>,
     session_id |-> NoChatId, sessionId |-> NoChatId, env |-> {}, nowTenths |-> 0,
     messages |-> <<>>, salutation |-> <<>>, provider |-> 0, attempts |-> <<>>,
     answers |-> <<>>, raised |-> FALSE, reply |-> <<>>, status |-> 0, body |-> <<>>,
     count |-> 0]

\* the texts that a client sends: none, a greeting, a greeting in brackets,
\* brackets only
ChatTexts == {<<>>, <<"h", "i">>, <<"<", "h", "i", ">", " ">>, <<"<", ">">>}

\* POST /api/chat/message up to the await of the select of
\* getOrCreateChatSession, lines 1286-1294 and 400-405
ChatStart(uids, texts, ids, envs) ==
    /\ creq.pc \in {"idle", "done"}
    /\ \E uid \in uids, body_text \in texts, session_id \in ids, env \in envs :
          LET sanitized == IF body_text # <<>> THEN sanitizedText(body_text) ELSE <<>>
              text == IF sanitized # <<>> THEN sanitized ELSE body_text
              rq == [IdleChat EXCEPT !.uid = uid, !.body_text = body_text, !.text = text,
                                     !.session_id = session_id, !.env = env,
                                     !.count = creq.count + 1]
          IN  creq' =
                  IF text = <<>> THEN [rq EXCEPT !.pc = "done", !.status = 400]
                  ELSE [rq EXCEPT !.pc = "select",
                                  !.sessionId = IF session_id # NoChatId THEN session_id
                                                ELSE newChatSessionId(uid, now)]
    /\ UNCHANGED <<baseVars, omiVars, chatdb, prefVars, brainVars>>

\* A variant of LastResort that answers with an error status.
LastResortFailing(rq) == [rq EXCEPT !.pc = "done", !.status = 500]

\* the catch of lines 1336-1346: the last resort
LastResort(rq) ==
    [rq EXCEPT !.pc = "done", !.status = 200,
               !.body = <<ChatMessage(trim(rq.body_text), now * 10, TRUE),
                          ChatMessage(TextUnderstood, now * 10 + 1, FALSE)>>]

\* lines 1296-1304, then generateAssistantReply up to the await of the select
\* of getJarvisSalutation, lines 439-440 and 428-432
WithSession(rq, session) ==
    [rq EXCEPT !.pc = "salutation", !.nowTenths = now * 10,
               !.messages = Append(session.messages,
                                   ChatMessage(trim(rq.text), now * 10, TRUE))]

\* the store answers the select of lines 401-405; without a row the function
\* goes on to the upsert of lines 410-419
ChatSelected(outcome) ==
    /\ creq.pc = "select"
    /\ creq' = IF outcome = "throw" THEN LastResort(creq)
               ELSE IF outcome = "ok" /\ chatdb[creq.sessionId].present
               THEN WithSession(creq, chatdb[creq.sessionId])
               ELSE [creq EXCEPT !.pc = "create"]
    /\ UNCHANGED <<baseVars, omiVars, chatdb, prefVars, brainVars>>

\* the store answers the upsert of lines 410-419, onConflict session_id
ChatCreated(outcome) ==
    /\ creq.pc = "create"
    /\ LET created == ChatRow(creq.uid, <<>>, toISOString(now))
       IN  /\ chatdb' = IF outcome = "ok" THEN [chatdb EXCEPT ![creq.sessionId] = created]
                        ELSE chatdb
           /\ creq' = IF outcome = "ok" THEN WithSession(creq, created) ELSE LastResort(creq)
    /\ UNCHANGED <<baseVars, omiVars, prefVars, brainVars>>

\* lines 1307-1318: the reply, the one of line 1307 when the function has
\* raised, joins the messages; the handler is at the await of the update
WithReply(rq, raised, reply) ==
    [rq EXCEPT !.pc = "persist", !.raised = raised, !.reply = reply,
               !.messages = Append(@, ChatMessage(reply, rq.nowTenths + 1, FALSE))]

\* generateAssistantReply from the provider after the one of the index: the
\* call of the next configured provider, or the error of line 549
TryFrom(rq, after) ==
    LET p == NextProvider(after, rq.env)
    IN  IF p = 0 THEN WithReply(rq, TRUE, TextAcknowledged)
        ELSE [rq EXCEPT !.pc = "fetch", !.provider = p,
                        !.attempts = Append(@, ProviderPayload(Providers[p], rq.messages,
                                                               rq.uid, rq.salutation))]

\* no salutation kept (undefined, null)
NoSalutation == <<>>

\* data?.analytics?.salutation || 'sir', lines 1506 and 433
SalutationOr(rows, column, uid, outcome) ==
    LET kept == IF outcome = "ok" /\ rows[uid].present THEN column[uid] ELSE NoSalutation
    IN  IF kept # NoSalutation THEN kept ELSE TextSir

\* the store answers the select of getJarvisSalutation, lines 428-436
SalutationRead(outcome) ==
    /\ creq.pc = "salutation"
    /\ creq' = TryFrom([creq EXCEPT !.salutation =
                            SalutationOr(frienddb, analytics, creq.uid, outcome)], 0)
    /\ UNCHANGED <<baseVars, omiVars, chatdb, prefVars, brainVars>>

\* the provider called answers, lines 468-475, 497-503 and 536-545
ProviderAnswered(outcome) ==
    /\ creq.pc = "fetch"
    /\ LET rq == [creq EXCEPT !.answers = Append(@, outcome)]
       IN  creq' = IF Returns(Providers[creq.provider], outcome)
                   THEN WithReply(rq, FALSE,
                                  ReplyOf(Providers[creq.provider], outcome, creq.salutation))
                   ELSE TryFrom(rq, creq.provider)
    /\ UNCHANGED <<baseVars, omiVars, chatdb, prefVars, brainVars>>

\* the store answers the update of lines 1322-1329 and the handler answers,
\* lines 1330-1335
ChatPersisted(outcome) ==
    /\ creq.pc = "persist"
    /\ chatdb' = IF outcome = "ok" /\ chatdb[creq.sessionId].present
                 THEN [chatdb EXCEPT ![creq.sessionId] =
                          ChatRow(creq.uid, creq.messages, toISOString(now))]
                 ELSE chatdb
    /\ creq' = [creq EXCEPT !.pc = "done", !.status = 200, !.body = creq.messages]
    /\ UNCHANGED <<baseVars, omiVars, prefVars, brainVars>>

(***************************************************************************)
(* The preferences: getSalutationForUid (lines 1498-1511),                 *)
(* setSalutationForUid (1513-1533), GET and POST /api/preferences          *)
(* (1536-1561).  validateUid has passed.  A salutation is a text; the      *)
(* empty text stands for none (undefined, null).                           *)
(***************************************************************************)
Salutations == {NoSalutation, <<"J", "A", "Y">>, <<"i", "v", "y">>}

\* the handler's locals
IdlePref ==
    [pc |-> "idle", op |-> "get", uid |-> NoUid, salutation |-> NoSalutation,
     s |-> NoSalutation, status |-> 0, body |-> NoSalutation]

\* the handlers up to the await of the select: lines 1536-1539 and 1498-1504,
\* lines 1548-1555 and 1513-1520
PrefStart(op, uids, salutations) ==
    /\ preq.pc \in {"idle", "done"}
    /\ \E uid \in uids, salutation \in salutations :
          LET rq == [IdlePref EXCEPT !.op = op, !.uid = uid, !.salutation = salutation]
          IN  preq' =
                  IF op = "get" THEN [rq EXCEPT !.pc = "read"]
                  ELSE IF salutation = NoSalutation
                  THEN [rq EXCEPT !.pc = "done", !.status = 400]
                  ELSE [rq EXCEPT !.pc = "select", !.s = toLowerCase(salutation)]
    /\ UNCHANGED <<baseVars, omiVars, chatVars, analytics, saved, brainVars>>

\* GET: the store answers the select and the handler answers, lines 1505-1510
\* and 1540
PrefRead(outcome) ==
    /\ preq.pc = "read"
    /\ preq' = [preq EXCEPT !.pc = "done", !.status = 200,
                            !.body = SalutationOr(frienddb, analytics, preq.uid, outcome)]
    /\ UNCHANGED <<baseVars, omiVars, chatVars, analytics, saved, brainVars>>

\* POST: the store answers the select of lines 1516-1520; a rejected call ends
\* in the catch of lines 1529-1532 and the handler answers with null
PrefSelected(outcome) ==
    /\ preq.pc = "select"
    /\ preq' = IF outcome = "throw"
               THEN [preq EXCEPT !.pc = "done", !.status = 200, !.body = NoSalutation]
               ELSE [preq EXCEPT !.pc = "upsert"]
    /\ saved' = IF outcome = "throw" THEN [saved EXCEPT ![preq.uid] = preq.s] ELSE saved
    /\ UNCHANGED <<baseVars, omiVars, chatVars, analytics, brainVars>>

\* A variant of UpsertAnalytics that keeps the salutation as it was sent.
UpsertAnalyticsAsSent(column, rq) == [column EXCEPT ![rq.uid] = rq.salutation]

\* upsert({ uid, analytics }, { onConflict: 'uid' }), lines 1522-1526
UpsertAnalytics(column, rq) == [column EXCEPT ![rq.uid] = rq.s]

\* POST: the store answers the upsert, whose result the function does not
\* look at, and the handler answers, lines 1524-1532 and 1556
PrefUpserted(outcome) ==
    /\ preq.pc = "upsert"
    /\ analytics' = IF outcome = "ok" THEN UpsertAnalytics(analytics, preq) ELSE analytics
    /\ frienddb' = IF outcome = "ok" THEN EnsureFriend(frienddb, preq.uid) ELSE frienddb
    /\ preq' = [preq EXCEPT !.pc = "done", !.status = 200,
                            !.body = IF outcome = "throw" THEN NoSalutation ELSE preq.s]
    /\ saved' = [saved EXCEPT ![preq.uid] = preq.s]
    /\ UNCHANGED <<now, ticks, started, heap, buffers, sessions, req, sweep, areq, posted,
                   sender, heard, silenced, replies, omiVars, chatVars, brainVars>>

(***************************************************************************)
(* The Brain server: GET /healthz and GET /readyz, and the graceful        *)
(* shutdown (initiateGracefulShutdown, the handlers of SIGTERM and         *)
(* SIGINT).  The HTTP server counts its open connections; close() stops    *)
(* the listening and the 'close' event comes when the last connection has  *)
(* ended; the callbacks of close() run in the order of their               *)
(* registration, a callback registered on a server that no longer listens  *)
(* gets an error.  exit is the exit code, -1 while the process runs.       *)
(***************************************************************************)
Running == -1

MaxConnections == 2

MaxSignals == 2

MaxBrainTicks == 3

\* axios.get(supabaseHealthUrl, { timeout: 1500 }), milliseconds
ReadyTimeout == 1500

\* setTimeout(..., 10000), in seconds
ForceExitAfter == 10000 \div 1000

\* the time a health check of the store takes, milliseconds
HealthDelays == {1, ReadyTimeout - 1, ReadyTimeout + 1}

\* the health check: the store answers 2xx, answers another status, or the
\* connection fails
HealthOutcomes == {"ok", "error", "throw"}

IdleReady ==
    [pc |-> "idle", path |-> "", env |-> FALSE, outcome |-> "", took |-> 0,
     status |-> 0, body |-> ""]

InitServer ==
    [state |-> "listening", connections |-> 0, callbacks |-> <<>>, timers |-> {},
     signals |-> <<>>, idle |-> 0, exit |-> Running]

\* a client connects to the listening server
Connect ==
    /\ server.exit = Running
    /\ server.state = "listening"
    /\ server.connections < MaxConnections
    /\ server' = [server EXCEPT !.connections = @ + 1]
    /\ UNCHANGED <<baseVars, omiVars, chatVars, prefVars, ready>>

\* a connection ends; the last one of a server that no longer listens closes it
Disconnect ==
    /\ server.exit = Running
    /\ server.connections > 0
    /\ server' = [server EXCEPT !.connections = @ - 1,
                                !.state = IF @ = "closing" /\ server.connections = 1
                                          THEN "closed" ELSE @]
    /\ UNCHANGED <<baseVars, omiVars, chatVars, prefVars, ready>>

\* app.get('/healthz', ...)
Healthz ==
    /\ server.exit = Running
    /\ ready.pc \in {"idle", "done"}
    /\ ready' = [IdleReady EXCEPT !.pc = "done", !.path = "/healthz", !.status = 200,
                                  !.body = "ok"]
    /\ UNCHANGED <<baseVars, omiVars, chatVars, prefVars, server>>

\* app.get('/readyz', ...) up to the await of axios.get
ReadyzStart(envs) ==
    /\ server.exit = Running
    /\ ready.pc \in {"idle", "done"}
    /\ \E env \in envs :
          ready' = IF env
                   THEN [IdleReady EXCEPT !.pc = "health", !.path = "/readyz", !.env = env]
                   ELSE [IdleReady EXCEPT !.pc = "done", !.path = "/readyz", !.env = env,
                                          !.status = 503, !.body = "not ready"]
    /\ UNCHANGED <<baseVars, omiVars, chatVars, prefVars, server>>

\* A variant of Resolves that waits for the answer however long it takes.
ResolvesWheneverAnswered(outcome, took) == outcome = "ok"

\* axios.get resolves on a 2xx answer that comes before the timeout
Resolves(outcome, took) == outcome = "ok" /\ took < ReadyTimeout

\* the health check ends and the handler answers
HealthAnswered(outcome, took) ==
    /\ server.exit = Running
    /\ ready.pc = "health"
    /\ ready' = IF Resolves(outcome, took)
                THEN [ready EXCEPT !.pc = "done", !.outcome = outcome, !.took = took,
                                   !.status = 200, !.body = "ready"]
                ELSE [ready EXCEPT !.pc = "done", !.outcome = outcome, !.took = took,
                                   !.status = 503, !.body = "not ready"]
    /\ UNCHANGED <<baseVars, omiVars, chatVars, prefVars, server>>

\* A variant of ForceExitAt whose timer comes a second late.
ForceExitLate(seconds) == seconds + ForceExitAfter + 1

\* the time at which the timer of initiateGracefulShutdown fires
ForceExitAt(seconds) == seconds + ForceExitAfter

\* process.on('SIGTERM' | 'SIGINT', ...): initiateGracefulShutdown(signal)
initiateGracefulShutdown(signal) ==
    /\ server.exit = Running
    /\ Len(server.signals) < MaxSignals
    /\ server' =
          [server EXCEPT
              !.state = IF @ = "listening"
                        THEN (IF server.connections = 0 THEN "closed" ELSE "closing")
                        ELSE @,
              !.callbacks = Append(@, IF server.state = "listening" THEN "ok" ELSE "error"),
              !.timers = @ \cup {ForceExitAt(now)},
              !.signals = Append(@, [signal |-> signal, at |-> now])]
    /\ UNCHANGED <<baseVars, omiVars, chatVars, prefVars, ready>>

\* the 'close' event: the first callback of close() runs and ends the process
ServerClosed ==
    /\ server.exit = Running
    /\ server.state = "closed"
    /\ server.callbacks # <<>>
    /\ server' = [server EXCEPT !.exit = IF Head(server.callbacks) = "ok" THEN 0 ELSE 1]
    /\ UNCHANGED <<baseVars, omiVars, chatVars, prefVars, ready>>

\* a timer of initiateGracefulShutdown fires
ForceExit ==
    /\ server.exit = Running
    /\ \E t \in server.timers : now >= t
    /\ server' = [server EXCEPT !.exit = 1]
    /\ UNCHANGED <<baseVars, omiVars, chatVars, prefVars, ready>>

\* a second passes: no timer is due, no event waits for the next tick of the
\* loop; before a signal the server idles a bounded time
BrainTick ==
    /\ server.exit = Running
    /\ server.state # "closed"
    /\ \A t \in server.timers : now < t
    /\ server.signals = <<>> => server.idle < MaxBrainTicks
    /\ now' = now + 1
    /\ server' = [server EXCEPT !.idle = IF server.signals = <<>> THEN @ + 1 ELSE @]
    /\ UNCHANGED <<ticks, started, heap, buffers, sessions, frienddb, req, sweep, areq,
                   posted, sender, heard, silenced, replies, omiVars, chatVars, prefVars, ready>>

(***************************************************************************)
(* The clock.  A call on the store ends within the HTTP client's timeout,  *)
(* which is far below the thresholds of the program: in the model the      *)
(* clock advances between requests.                                        *)
(***************************************************************************)
Deltas == {1, ANALYSIS_INTERVAL, silenceThreshold + 1, BufferMaxAge + 1}

\* the clock advances by one of the deltas
Advance(deltas) ==
    /\ ticks < MaxTicks
    /\ started > 0
    /\ \A r \in Slots : req[r].pc \in {"idle", "done"}
    /\ \E d \in deltas : now' = now + d
    /\ ticks' = ticks + 1
    /\ UNCHANGED <<started, heap, buffers, sessions, frienddb, req, sweep, areq, posted, sender,
                   heard, silenced, omiVars,
                   moreVars>>

Tick == Advance(Deltas)

(***************************************************************************)
(* The service.                                                            *)
(***************************************************************************)
InitBase ==
    /\ now = TimeZero
    /\ ticks = 0
    /\ started = 0
    /\ heap = <<>>
    /\ buffers = [s \in Sessions |-> NoObject]
    /\ sessions = [s \in Sessions |-> NoRow]
    /\ frienddb = [u \in Uids \cup Sessions \cup DOMAIN UidText \cup {OtherUid} |-> NoRow]
    /\ req = [r \in Slots |-> IdleRequest]
    /\ sweep = NoSweep
    /\ areq = [r \in Slots |-> IdleAction]
    /\ posted = 0
    /\ sender \in [Sessions -> Uids \cup {NoUid}]
    /\ \A s \in Sessions \ MainSessions : sender[s] = NoUid
    /\ heard = <<>>
    /\ silenced = [s \in Sessions |-> FALSE]
    /\ replies = [s \in Sessions |-> NoReplies]
    /\ csrfTokens = {}
    /\ tokenLog = <<>>
    /\ failedKeyAttempts = [u \in OmiUids |-> NoAttempts]
    /\ user_settings = [u \in OmiUids |-> NoSettings]
    /\ kreq = [r \in Slots |-> IdleOmi]
    /\ asked = 0
    /\ failures = [u \in OmiUids |-> NoFailures]
    /\ creq = IdleChat
    /\ analytics = [u \in DOMAIN frienddb |-> NoSalutation]
    /\ preq = IdlePref
    /\ saved = [u \in DOMAIN frienddb |-> NoSalutation]
    /\ ready = IdleReady
    /\ server = InitServer

Init == InitBase /\ chatdb = [c \in ChatIds |-> NoChat]

\* Requests one after the other, the store answering every call.
Next ==
    \/ started < MaxRequests /\ WebhookStart(1, SegmentLists)
    \/ StoreSelect(1, "ok")
    \/ GetBufferLoaded(1)
    \/ StoreUpsert(1, "ok")
    \/ GetBufferCreated(1)
    \/ StoreUpdate(1, "ok")
    \/ StoreEnsureFriend(1, "ok")
    \/ CleanupOldSessions
    \/ StoreDeleteOld("ok")
    \/ Tick

Spec == Init /\ [][Next]_vars

\* Requests one after the other, the store failing any call.
NextFaults ==
    \/ started < MaxFaultRequests /\ WebhookStart(1, SegmentLists)
    \/ \E outcome \in StoreOutcomes : StoreSelect(1, outcome)
    \/ GetBufferLoaded(1)
    \/ \E outcome \in StoreOutcomes : StoreUpsert(1, outcome)
    \/ GetBufferCreated(1)
    \/ \E outcome \in StoreOutcomes : StoreUpdate(1, outcome)
    \/ \E outcome \in StoreOutcomes : StoreEnsureFriend(1, outcome)
    \/ CleanupOldSessions
    \/ \E outcome \in StoreOutcomes : StoreDeleteOld(outcome)
    \/ Tick

SpecFaults == Init /\ [][NextFaults]_vars

\* Requests racing at one instant, the store answering every call.
NextRace ==
    \/ started < MaxRaceRequests /\ \E r \in Slots : WebhookStart(r, SegmentLists)
    \/ \E r \in Slots : StoreSelect(r, "ok")
    \/ \E r \in Slots : GetBufferLoaded(r)
    \/ \E r \in Slots : StoreUpsert(r, "ok")
    \/ \E r \in Slots : GetBufferCreated(r)
    \/ \E r \in Slots : StoreUpdate(r, "ok")
    \/ \E r \in Slots : StoreEnsureFriend(r, "ok")

SpecRace == Init /\ [][NextRace]_vars

\* Requests on the actions of a user, racing, the store answering every call.
NextActions ==
    \/ posted < MaxActionRequests /\ \E r \in Slots : PostAction(r)
    \/ \E r \in Slots : ActionSelected(r, "ok")
    \/ \E r \in Slots : ActionWritten(r, "ok")

SpecActions == Init /\ [][NextActions]_vars

\* The requests on /api/actions one after the other, with the uids, types and
\* texts that the middleware tells apart, a second or none between them.
GuardUids ==
    {NoRawUid, NumberUid, StringUid(<<>>), StringUid(Chars("u", 2)),
     StringUid(UidText["u1"]), StringUid(<<"u", "!", "-", "1">>),
     StringUid(UidText["u2"]), StringUid(Chars("u", 51))}

TestTypes == {NoType, "task", "reminder", "event", "note", "test"}

TestTexts == {<<>>, <<"<", "g", "1", ">">>, Chars("a", 501)}

\* an id that no goal has
UnknownId == 1

\* the ids of the goals stored
GoalIds ==
    UNION {{frienddb[u].goals[i].id : i \in 1..Len(frienddb[u].goals)} :
              u \in {v \in DOMAIN frienddb : frienddb[v].present}}

NextGoals ==
    \/ posted < MaxGoalRequests /\
          StartAction(1, "post", GuardUids, {NoRawUid}, TestTypes, TestTexts, {0}, {FALSE})
    \/ posted < MaxGoalRequests /\
          StartAction(1, "put", GuardUids, {NoRawUid}, {NoType}, {<<>>},
                      GoalIds \cup {UnknownId}, BOOLEAN)
    \/ posted < MaxGoalRequests /\
          StartAction(1, "delete", {NoRawUid}, GuardUids, {NoType}, {<<>>},
                      GoalIds \cup {UnknownId}, {FALSE})
    \/ ActionSelected(1, "ok")
    \/ ActionWritten(1, "ok")
    \/ OmiWait({1})

SpecGoals == Init /\ [][NextGoals]_vars

\* Requests one after the other that say hello to the assistant, a second or
\* a little more than the analysis interval apart.
TextHelloJarvis == <<"h", "e", "l", "l", "o", " ", "j", "a", "r", "v", "i", "s">>

ScenarioSegments ==
    {Segment(TextHelloJarvis, 0, TRUE), Segment(TextHarvis, 99, TRUE),
     Segment(TextFive, 0, FALSE)}

ScenarioLists == UNION {[1..n -> ScenarioSegments] : n \in 0..MaxSegments}

NextScenario ==
    \/ started < MaxRequests /\ WebhookStart(1, ScenarioLists)
    \/ StoreSelect(1, "ok")
    \/ GetBufferLoaded(1)
    \/ StoreUpsert(1, "ok")
    \/ GetBufferCreated(1)
    \/ StoreUpdate(1, "ok")
    \/ StoreEnsureFriend(1, "ok")
    \/ Advance({1, ANALYSIS_INTERVAL + 1})

SpecScenario == Init /\ [][NextScenario]_vars

\* Two sessions, heard one after the other, an hour or a day apart, and the
\* sweep.
SweepLists == {<<Segment(TextFive, 0, FALSE)>>}

NextSweep ==
    \/ started < MaxRequests /\ WebhookFor(1, Sessions, SweepLists)
    \/ StoreSelect(1, "ok")
    \/ GetBufferLoaded(1)
    \/ StoreUpsert(1, "ok")
    \/ GetBufferCreated(1)
    \/ StoreUpdate(1, "ok")
    \/ StoreEnsureFriend(1, "ok")
    \/ CleanupOldSessions
    \/ StoreDeleteOld("ok")
    \/ Advance({BufferMaxAge, BufferMaxAge + 1, RowMaxAgeMs \div 1000, RowMaxAgeMs \div 1000 + 1})

SpecSweep == Init /\ [][NextSweep]_vars

\* Requests on the key of one user, some of them tests, racing, with the
\* upstream API accepting or rejecting the key; half an hour may pass.
NextLockout ==
    \/ Len(tokenLog) < MaxLockoutTokens /\ GetCsrfToken({"u1"})
    \/ asked < MaxOmiRequests /\
          \E r \in Slots : PostOmiKey(r, {"u1"}, {OmiKey("sk_", 31), OmiKey("sk_", 32)}, BOOLEAN)
    \/ \E r \in Slots, outcome \in {"ok", "error"} : UpstreamAnswered(r, outcome)
    \/ \E r \in Slots : KeyUpserted(r, "ok")
    \/ OmiWait({LOCKOUT_DURATION \div 1000 - 1, LOCKOUT_DURATION \div 1000})

SpecLockout == Init /\ [][NextLockout]_vars

\* Requests of two users that need a CSRF token, one after the other or
\* racing, with tokens of their own, of the other user, used or expired; the
\* store and the upstream API may fail.
NextCsrf ==
    \/ Len(tokenLog) < MaxTokens /\ GetCsrfToken(OmiUids)
    \/ asked < MaxCsrfRequests /\
          \E r \in Slots : PostOmiKey(r, OmiUids, {OmiKey("sk_", 32)}, BOOLEAN)
    \/ asked < MaxCsrfRequests /\ \E r \in Slots : DeleteOmiKey(r, OmiUids)
    \/ asked < MaxCsrfRequests /\ \E r \in Slots : PatchOmiToggle(r, OmiUids)
    \/ \E r \in Slots, outcome \in {"ok", "error"} : UpstreamAnswered(r, outcome)
    \/ \E r \in Slots, outcome \in {"ok", "error"} : KeyUpserted(r, outcome)
    \/ \E r \in Slots, outcome \in {"ok", "error"} : SettingsUpdated(r, outcome)
    \/ OmiWait({CSRF_TOKEN_TTL \div 1000, CSRF_TOKEN_TTL \div 1000 + 1})

SpecCsrf == Init /\ [][NextCsrf]_vars

\* Webhook requests of a device and POST /api/actions of its user, the ones
\* between the steps of the others, the store answering every call or failing
\* the writes of saveBuffer.
MaxFriendRequests == 2

NextFriend ==
    \/ started < MaxFriendRequests /\ WebhookStart(1, SweepLists)
    \/ StoreSelect(1, "ok")
    \/ GetBufferLoaded(1)
    \/ StoreUpsert(1, "ok")
    \/ GetBufferCreated(1)
    \/ \E outcome \in StoreOutcomes : StoreUpdate(1, outcome)
    \/ \E outcome \in StoreOutcomes : StoreEnsureFriend(1, outcome)
    \/ posted < MaxFriendRequests /\ PostAction(1)
    \/ ActionSelected(1, "ok")
    \/ ActionWritten(1, "ok")

SpecFriend == Init /\ [][NextFriend]_vars

\* POST and DELETE on the actions of one user, one after the other, a second
\* or none between them; the store may fail any call.
MaxGoalFaultRequests == 3

NextGoalFaults ==
    \/ posted < MaxGoalFaultRequests /\ PostAction(1)
    \/ posted < MaxGoalFaultRequests /\
          StartAction(1, "delete", {NoRawUid}, {StringUid(UidText[u]) : u \in Uids},
                      {NoType}, {<<>>}, GoalIds \cup {UnknownId}, {FALSE})
    \/ \E outcome \in StoreOutcomes : ActionSelected(1, outcome)
    \/ \E outcome \in StoreOutcomes : ActionWritten(1, outcome)
    \/ OmiWait({1})

SpecGoalFaults == Init /\ [][NextGoalFaults]_vars

\* Requests on /api/actions one after the other whose uids hold characters
\* that validateUid removes.
MaxUidRequests == 2

UidInputs ==
    {NoRawUid, StringUid(<<"u", "1">>), StringUid(<<"u", "!", "!">>),
     StringUid(<<"!", "!", "!">>), StringUid(UidText["u1"]),
     StringUid(<<"<", "u", "-", "1", ">">>), StringUid(Chars("u", 51))}

NextUid ==
    \/ posted < MaxUidRequests /\
          StartAction(1, "post", UidInputs, {NoRawUid}, {NoType}, GoalTexts, {0}, {FALSE})
    \/ posted < MaxUidRequests /\
          StartAction(1, "delete", {NoRawUid}, UidInputs, {NoType}, {<<>>},
                      GoalIds \cup {UnknownId}, {FALSE})
    \/ ActionSelected(1, "ok")
    \/ ActionWritten(1, "ok")

SpecUid == Init /\ [][NextUid]_vars

\* Requests on the chat one after the other, with and without the id of a
\* chat that has gone on for a while, with any of the providers configured;
\* the store and the providers may fail.
MaxChatRequests == 2

EarlierChats == {0, 8, 10}

InitChat ==
    /\ InitBase
    /\ \E n \in EarlierChats :
          chatdb = [c \in ChatIds |->
                       IF c = ClientChatId /\ n > 0
                       THEN ChatRow("u1", EarlierMessages(n), toISOString(TimeZero))
                       ELSE NoChat]

NextChat ==
    \/ creq.count < MaxChatRequests /\
          ChatStart({"u1"}, ChatTexts, {NoChatId, ClientChatId}, SUBSET ProviderNames)
    \/ \E outcome \in StoreOutcomes : ChatSelected(outcome)
    \/ \E outcome \in StoreOutcomes : ChatCreated(outcome)
    \/ \E outcome \in StoreOutcomes : SalutationRead(outcome)
    \/ \E outcome \in ProviderOutcomes : ProviderAnswered(outcome)
    \/ \E outcome \in StoreOutcomes : ChatPersisted(outcome)

SpecChat == InitChat /\ [][NextChat]_vars

\* Requests on the preferences of two users one after the other; the store
\* may fail.
PrefUids == {"u1", "u2"}

NextPrefs ==
    \/ PrefStart("get", PrefUids, {NoSalutation})
    \/ PrefStart("post", PrefUids, Salutations)
    \/ \E outcome \in StoreOutcomes : PrefRead(outcome)
    \/ \E outcome \in StoreOutcomes : PrefSelected(outcome)
    \/ \E outcome \in StoreOutcomes : PrefUpserted(outcome)

SpecPrefs == Init /\ [][NextPrefs]_vars

\* The same, the store answering every call.
NextPrefsSound ==
    \/ PrefStart("get", PrefUids, {NoSalutation})
    \/ PrefStart("post", PrefUids, Salutations)
    \/ PrefRead("ok")
    \/ PrefSelected("ok")
    \/ PrefUpserted("ok")

SpecPrefsSound == Init /\ [][NextPrefsSound]_vars

\* The Brain server: connections come and go, the endpoints of health and
\* readiness are asked, signals arrive, time passes.
NextBrain ==
    \/ Connect
    \/ Disconnect
    \/ Healthz
    \/ ReadyzStart(BOOLEAN)
    \/ \E outcome \in HealthOutcomes, took \in HealthDelays : HealthAnswered(outcome, took)
    \/ \E signal \in {"SIGTERM", "SIGINT"} : initiateGracefulShutdown(signal)
    \/ ServerClosed
    \/ ForceExit
    \/ BrainTick

SpecBrain == Init /\ [][NextBrain]_vars

\* The same with the scheduling of the event loop: an event that waits is
\* delivered, a timer that is due fires, time passes.
SpecBrainLive ==
    /\ Init
    /\ [][NextBrain]_vars
    /\ WF_vars(ServerClosed)
    /\ WF_vars(ForceExit)
    /\ WF_vars(BrainTick)

(***************************************************************************)
(* Properties.  A request has been answered when its handler is done; the  *)
(* answer is in status and body.                                           *)
(***************************************************************************)
Answered(r) == req[r].pc = "done" /\ req[r].session_id # NoSession

\* the text holds the piece, characters side by side
Contains(text, piece) ==
    \E i \in 0..(Len(text) - Len(piece)) : SubSeq(text, i + 1, i + Len(piece)) = piece

\* the text says jarvis, harvis or yarvis, in capitals or not
SaysWakeWord(text) ==
    \E first \in {"j", "h", "y", "J", "H", "Y"},
       a \in {"a", "A"}, r \in {"r", "R"}, v \in {"v", "V"},
       i \in {"i", "I"}, z \in {"s", "S"} :
        Contains(text, <<first, a, r, v, i, z>>)

\* C1: a webhook request with a session_id is answered 200 exactly when, at
\* the flush check, the time since lastAnalysisTime is at least 30 s, the
\* buffer holds a message and silenceDetected is false; in every other case it
\* is answered 202 with an empty body.
C1_FlushCondition ==
    \A r \in Slots :
        Answered(r) =>
            IF /\ req[r].check.timeSinceLastAnalysis >= 30
               /\ req[r].check.length >= 1
               /\ ~req[r].check.silenceDetected
            THEN req[r].status = 200
            ELSE req[r].status = 202 /\ req[r].body = EmptyBody

\* a request answered 200, and one answered 202 although 30 s had passed and
\* the buffer held a message, because the session was silent
C1_Witness ==
    /\ Answered(1)
    /\ req[1].check.timeSinceLastAnalysis >= 30
    /\ req[1].check.length >= 1
    /\ \/ req[1].status = 200
       \/ req[1].status = 202 /\ req[1].check.silenceDetected

C3_NotificationIffWakeWord ==
    \A r \in Slots :
        (Answered(r) /\ req[r].status = 200) =>
            IF req[r].body.kind = "notification"
            THEN /\ Len(req[r].body.discussion) = req[r].check.length
                 /\ \E i \in 1..Len(req[r].body.discussion) :
                        SaysWakeWord(req[r].body.discussion[i].text)
            ELSE /\ req[r].body = EmptyBody
                 /\ Len(heap[req[r].bufferData].messages) = req[r].check.length
                 /\ \A i \in 1..Len(heap[req[r].bufferData].messages) :
                        ~SaysWakeWord(heap[req[r].bufferData].messages[i].text)

\* a notification for a wake word said in capitals
C3_Witness ==
    /\ Answered(1)
    /\ req[1].status = 200
    /\ req[1].body.kind = "notification"
    /\ \E i \in 1..Len(req[1].body.discussion) :
            Contains(req[1].body.discussion[i].text, <<"H", "A", "R", "V", "I", "S">>)

\* the timestamp and the speaker flag of each message or segment of a sequence
Marks(seq) ==
    [i \in 1..Len(seq) |-> [timestamp |-> seq[i].timestamp, is_user |-> seq[i].is_user]]

\* a message cannot go on from a to b: the speaker changes or 2 s lie between
Breaks(a, b) ==
    \/ a.is_user # b.is_user
    \/ a.timestamp - b.timestamp >= 2
    \/ b.timestamp - a.timestamp >= 2

\* the number of messages when each segment is compared with the one before
RunsByPrevious(segs) ==
    IF segs = <<>> THEN 0
    ELSE 1 + Cardinality({i \in 2..Len(segs) : Breaks(segs[i - 1], segs[i])})

\* the first segments of the messages when each segment is compared with the
\* first segment of the message in progress
RECURSIVE RunsByFirst(_, _)
RunsByFirst(firsts, segs) ==
    IF segs = <<>> THEN firsts
    ELSE IF firsts # <<>> /\ ~Breaks(firsts[Len(firsts)], Head(segs))
    THEN RunsByFirst(firsts, Tail(segs))
    ELSE RunsByFirst(Append(firsts, Head(segs)), Tail(segs))

\* C4 as stated: the buffer holds one message per run of segments in which
\* each segment has the speaker flag of the segment before it and a timestamp
\* within 2 s of it; a change of flag or a gap of 2 s or more starts a message.
C4_MergesWithPreviousSegment ==
    \A o \in 1..Len(heap) :
        heard[o].valid => Len(heap[o].messages) = RunsByPrevious(heard[o].segs)

\* C4, amended: a segment joins the last message when it has its speaker flag
\* and a timestamp within 2 s of the timestamp of that message, which is the
\* timestamp of the first segment of the message; otherwise it starts a
\* message.
C4_MergesWithFirstSegment ==
    \A o \in 1..Len(heap) :
        heard[o].valid => Marks(heap[o].messages) = RunsByFirst(<<>>, Marks(heard[o].segs))

\* three segments of one speaker, each less than 2 s after the one before,
\* held as two messages
C4_Witness ==
    \E o \in 1..Len(heap) :
        /\ heard[o].valid
        /\ Len(heard[o].segs) = 3
        /\ RunsByPrevious(heard[o].segs) = 1
        /\ Len(heap[o].messages) = 2

\* the time since the session was last active, as the request finds it: in the
\* buffer in memory, or else in the row it loads
Inactivity(r) ==
    IF req[r].sessionData.present
    THEN req[r].currentTime - (req[r].sessionData.last_activity \div 1000)
    ELSE req[r].timeSinceActivity

\* C5: a request that brings a segment to a session inactive for more than
\* 120 s works on a buffer without the earlier messages and with silence
\* detected, however long the inactivity.
C5_SilenceAfterInactivity ==
    \A r \in Slots :
        (/\ Answered(r)
         /\ HeardOf(req[r].segments, req[r].currentTime) # <<>>
         /\ Inactivity(r) > 120)
            => req[r].entered.silenceDetected /\ req[r].entered.length = 0

\* a segment after more than an hour of inactivity finds the earlier messages
\* and no silence, and they are flushed at once
C5_Witness ==
    /\ Answered(1)
    /\ HeardOf(req[1].segments, req[1].currentTime) # <<>>
    /\ Inactivity(1) > 3600
    /\ req[1].entered.length >= 1
    /\ ~req[1].entered.silenceDetected
    /\ req[1].status = 200

\* C6: a session for which silence was detected, and for which no segment has
\* brought the words received since to 5, is silent.
C6_SilenceEndsOnlyByWords ==
    \A s \in Sessions :
        (silenced[s] /\ buffers[s] # NoObject) => heap[buffers[s]].silenceDetected

\* a silent session is no longer silent though fewer than 5 words came
C6_Witness ==
    \E s \in Sessions :
        /\ silenced[s]
        /\ buffers[s] # NoObject
        /\ ~heap[buffers[s]].silenceDetected
        /\ heap[buffers[s]].wordsAfterSilence < 5

\* C7: after a request with a session_id whose calls the store has all
\* accepted, the row of the session holds the messages and the last activity of
\* the buffer, and the uid the caller sent.
C7_PersistsEveryRequest ==
    \A r \in Slots :
        (Answered(r) /\ req[r].accepted) =>
            /\ sessions[req[r].session_id].present
            /\ sessions[req[r].session_id].messages = heap[req[r].bufferData].messages
            /\ sessions[req[r].session_id].last_activity = req[r].currentTime * 1000
            /\ req[r].uid # NoUid => sessions[req[r].session_id].uid = req[r].uid

\* a request whose calls the store accepted, answered, and no row
C7_Witness ==
    /\ Answered(1)
    /\ req[1].accepted
    /\ req[1].status \in {200, 202}
    /\ heap[req[1].bufferData].messages # <<>>
    /\ ~sessions[req[1].session_id].present

\* the messages in which the segments of request r are to be found: those of
\* its notification, or those of its buffer
MessagesOf(r) ==
    IF req[r].body.kind = "notification" THEN req[r].body.discussion
    ELSE heap[req[r].bufferData].messages

\* C8: whatever calls on the store fail, a request with a session_id is
\* answered 200 or 202, and it has worked on a buffer in memory, the one of the
\* session, that holds the text of each of its segments (or has given them in
\* its notification).
C8_StoreFailuresNonFatal ==
    \A r \in Slots :
        Answered(r) =>
            /\ req[r].status \in {200, 202}
            /\ req[r].bufferData # NoObject
            /\ buffers[req[r].session_id] = req[r].bufferData \/ now > req[r].currentTime
            /\ \A i \in 1..Len(HeardOf(req[r].segments, req[r].currentTime)) :
                  \E j \in 1..Len(MessagesOf(r)) :
                      Contains(MessagesOf(r)[j].text,
                               HeardOf(req[r].segments, req[r].currentTime)[i].text)

\* a request with segments, answered although the store failed its calls, the
\* last one included
C8_Witness ==
    /\ Answered(1)
    /\ ~req[1].accepted
    /\ req[1].outcome = "throw"
    /\ req[1].sessionData = NoRow
    /\ HeardOf(req[1].segments, req[1].currentTime) # <<>>
    /\ req[1].status \in {200, 202}

\* the messages a session holds in memory, and those in its row
InMemory(s) == IF buffers[s] # NoObject THEN heap[buffers[s]].messages ELSE <<>>
Persisted(s) == IF sessions[s].present THEN sessions[s].messages ELSE <<>>

\* a segment of request r is in none of the messages of seq
Missing(r, seq) ==
    \E i \in 1..Len(HeardOf(req[r].segments, req[r].currentTime)) :
        \A j \in 1..Len(seq) :
            ~Contains(seq[j].text, HeardOf(req[r].segments, req[r].currentTime)[i].text)

\* request r was answered and a segment of it is neither in the buffer of the
\* session, nor in its row, nor in the notification the request gave
Lost(r) ==
    /\ Answered(r)
    /\ req[r].status \in {200, 202}
    /\ Missing(r, InMemory(req[r].session_id) \o Persisted(req[r].session_id))
    /\ req[r].body.kind = "notification" => Missing(r, req[r].body.discussion)

\* C9: the segments of an answered request are lost only when another request
\* has put another buffer in the place of the one the request worked on.
C9_LostOnlyByReplacedBuffer ==
    \A r \in Slots : Lost(r) => buffers[req[r].session_id] # req[r].bufferData

\* two requests for one session, both answered 200 or 202, the segments of
\* the first neither in the buffer of the session nor in its row
C9_Witness ==
    /\ Answered(1)
    /\ Answered(2)
    /\ req[1].session_id = req[2].session_id
    /\ req[2].status \in {200, 202}
    /\ Lost(1)
    /\ ~Lost(2)
    /\ HeardOf(req[2].segments, req[2].currentTime) # <<>>

\* the goals stored for a uid
StoredGoals(rows, uid) == IF rows[uid].present THEN rows[uid].goals ELSE <<>>

\* a goal of before is among no goal of after
Vanishes(before, after) ==
    \E i \in 1..Len(before) : \A j \in 1..Len(after) : after[j] # before[i]

\* C10: a write of POST /api/actions makes a stored goal vanish only when
\* another request has written the goals between the read and the write of
\* this one.
C10_GoalVanishesOnlyByOverlap ==
    [][\A r \in Slots :
          (/\ areq[r].pc = "write"
           /\ areq'[r].pc = "done"
           /\ Vanishes(StoredGoals(frienddb, areq[r].uid),
                       StoredGoals(frienddb', areq[r].uid)))
              => areq[r].stale]_vars

\* two requests for one uid, both answered 200, and the stored goals hold the
\* goal of the second only
C10_Witness ==
    /\ posted = 2
    /\ areq[1].pc = "done" /\ areq[1].status = 200
    /\ areq[2].pc = "done" /\ areq[2].status = 200
    /\ areq[1].uid = areq[2].uid
    /\ areq[1].newGoal # areq[2].newGoal
    /\ StoredGoals(frienddb, areq[1].uid) = <<areq[2].newGoal>>

\* the one segment of the scenario: hello jarvis, said by the user
HelloJarvis ==
    <<[text |-> <<"h", "e", "l", "l", "o", " ", "j", "a", "r", "v", "i", "s">>,
       start |-> 0, is_user |-> TRUE]>>

\* the first request of a run, for a session without buffer or row, has
\* brought hello jarvis and has been answered
FirstSaidHello == started = 1 /\ Answered(1) /\ req[1].segments = HelloJarvis

\* C11: the first request for a session without buffer or row, with the one
\* segment hello jarvis, is answered 202 with an empty body and leaves a row
\* with exactly one message; a second request 31 s later with a segment that
\* says the wake word is answered 200 with a notification that quotes the
\* messages, and leaves the buffer of the session in memory without messages.
C11_Scenario ==
    /\ [](FirstSaidHello =>
            /\ req[1].status = 202
            /\ req[1].body = EmptyBody
            /\ sessions[req[1].session_id].present
            /\ Len(sessions[req[1].session_id].messages) = 1)
    /\ [][(/\ FirstSaidHello
           /\ started' = 2
           /\ req'[1].session_id = req[1].session_id
           /\ req'[1].currentTime = req[1].currentTime + 31
           /\ Len(req'[1].segments) = 1
           /\ SaysWakeWord(req'[1].segments[1].text))
              => /\ req'[1].status = 200
                 /\ req'[1].body.kind = "notification"
                 /\ req'[1].body.discussion # <<>>
                 /\ buffers'[req[1].session_id] # NoObject
                 /\ heap'[buffers'[req[1].session_id]].messages = <<>>]_vars

\* the second request of the scenario has been answered with a notification
\* that quotes hello jarvis first, the buffer and the row are without messages
C11_Witness ==
    /\ started = 2
    /\ Answered(1)
    /\ req[1].currentTime = TimeZero + 31
    /\ req[1].status = 200
    /\ req[1].body.kind = "notification"
    /\ Len(req[1].body.discussion) = 2
    /\ req[1].body.discussion[1].text = HelloJarvis[1].text
    /\ InMemory(req[1].session_id) = <<>>
    /\ Persisted(req[1].session_id) = <<>>

\* C12: a webhook request without session_id is answered 400 and ends at
\* once: the step that receives it changes no buffer, no row, and leaves no
\* call on the store to come.
C12_NoSessionNoEffect ==
    [][\A r \in Slots :
          (started' = started + 1 /\ req'[r] # req[r] /\ req'[r].session_id = NoSession)
              => /\ req'[r].status = 400
                 /\ req'[r].body = ErrorBody
                 /\ req'[r].pc = "done"
                 /\ heap' = heap /\ buffers' = buffers
                 /\ sessions' = sessions /\ frienddb' = frienddb]_vars

\* a request without session_id answered 400 after a request that left a
\* buffer and a row
C12_Witness ==
    /\ started = 2
    /\ req[1].pc = "done"
    /\ req[1].session_id = NoSession
    /\ req[1].status = 400
    /\ \E s \in Sessions : InMemory(s) # <<>> /\ Persisted(s) # <<>>

\* C13: a sweep removes from memory the buffers last active more than
\* 3600 s before it, those and no other, and changes no buffer.
C13_SweepEvictsExpiredOnly ==
    [][(sweep = NoSweep /\ sweep' # NoSweep) =>
          /\ heap' = heap
          /\ \A s \in Sessions :
                buffers'[s] =
                    IF buffers[s] # NoObject /\ now - heap[buffers[s]].lastActivity > 3600
                    THEN NoObject ELSE buffers[s]]_vars

\* a sweep has removed the buffer of a session last heard 3601 s ago and has
\* left the buffer of a session just heard
C13_Witness ==
    /\ sweep # NoSweep
    /\ req[1].pc = "done" /\ req[1].session_id = "S2" /\ req[1].currentTime = now
    /\ now = TimeZero + 3601
    /\ sessions["S1"].present /\ sessions["S1"].last_activity = TimeZero * 1000
    /\ buffers["S1"] = NoObject
    /\ buffers["S2"] # NoObject

\* the time of the sweep in progress, in milliseconds: it keeps the time 24
\* hours before
SweepTimeMs == sweep + 24 * 3600 * 1000

\* C14: the sweep deletes a row only when its last_activity is more than 24
\* hours before the time of the sweep; the time of the sweep is not after the
\* time of the delete.
C14_SweepDeletesOldRowsOnly ==
    /\ [](sweep # NoSweep => SweepTimeMs <= now * 1000)
    /\ [][\A s \in Sessions :
            (sessions[s].present /\ ~sessions'[s].present) =>
                /\ sweep # NoSweep
                /\ sessions[s].last_activity + 24 * 3600 * 1000 < SweepTimeMs]_vars

\* the sweep has deleted the row of a session last heard a day and a second
\* ago and has left the row of a session just heard
C14_Witness ==
    /\ sweep = NoSweep
    /\ now = TimeZero + 86401
    /\ req[1].pc = "done" /\ req[1].session_id = "S2" /\ req[1].currentTime = now
    /\ ~sessions["S1"].present
    /\ frienddb["S1"].present
    /\ sessions["S2"].present

\* C15: a POST /api/omi/key that comes in the 30 minutes after the third
\* failed key validation in a row for its uid, and that passes the CSRF gate,
\* is answered 429 and has not called the upstream API (so it writes no key).
C15_LockedOutAfterThreeFailures ==
    \A r \in Slots :
        (kreq[r].op = "key" /\ kreq[r].barred /\ kreq[r].status # 403) =>
            kreq[r].status = 429 /\ ~kreq[r].fetched

\* a request that came in those 30 minutes has been answered 400 for the
\* format of its key, not 429
C15_Witness ==
    /\ asked = 5
    /\ kreq[1].op = "key"
    /\ kreq[1].barred
    /\ kreq[1].pc = "done"
    /\ kreq[1].status = 400
    /\ ~isLockedOut(failedKeyAttempts[kreq[1].uid], NowMs)

\* the request needs a CSRF token: it saves a key, deletes it, or toggles
NeedsCsrf(rq) == rq.op \in {"delete", "toggle"} \/ (rq.op = "key" /\ ~rq.test_only)

\* C16: a request that saves a key, deletes it or toggles the integration is
\* answered 403 unless its token was issued for its uid, no more than 15
\* minutes before, and was never accepted; no token is accepted twice.
C16_CsrfTokenSingleUse ==
    /\ [](\A t \in 1..Len(tokenLog) : tokenLog[t].accepted <= 1)
    /\ [][\A r \in Slots :
            (asked' = asked + 1 /\ kreq'[r] # kreq[r] /\ NeedsCsrf(kreq'[r]))
                => \/ kreq'[r].status = 403
                   \/ /\ kreq'[r].token \in 1..Len(tokenLog)
                      /\ tokenLog[kreq'[r].token].uid = kreq'[r].uid
                      /\ now * 1000 <= tokenLog[kreq'[r].token].at + 15 * 60 * 1000
                      /\ tokenLog[kreq'[r].token].accepted = 0]_vars

\* a token accepted exactly 15 minutes after it was issued, and a later
\* request of the same user with the same token answered 403
C16_Witness ==
    /\ kreq[1].pc = "done" /\ kreq[1].op = "delete" /\ kreq[1].status = 403
    /\ kreq[1].token # NoToken
    /\ tokenLog[kreq[1].token].uid = kreq[1].uid
    /\ tokenLog[kreq[1].token].accepted = 1
    /\ now * 1000 = tokenLog[kreq[1].token].at + 15 * 60 * 1000

\* the key has the form of an OMI key
WellFormedKey(key) ==
    LET least == [p \in {"sk_", "omi_mcp_", "omi_"} |->
                    CASE p = "sk_" -> 32 [] p = "omi_mcp_" -> 16 [] p = "omi_" -> 24]
    IN  key.prefix \in DOMAIN least /\ key.length >= least[key.prefix] /\ key.length <= 64

\* C17: a request that is about to write a key to user_settings has presented
\* a valid unused CSRF token, did not come in the 30 minutes after a third
\* failed validation in a row for its uid, and its key has the form of a key
\* and was accepted by the upstream API; it is not a test_only request.
C17_KeyWrittenOnlyAfterChecks ==
    \A r \in Slots :
        kreq[r].pc = "upsert" =>
            /\ ~kreq[r].test_only
            /\ kreq[r].passedCsrf
            /\ ~kreq[r].barred
            /\ WellFormedKey(kreq[r].api_key)
            /\ kreq[r].fetched /\ kreq[r].outcome = "ok"

\* a key was saved by a request that came in the 30 minutes after the third
\* failed validation in a row
C17_Witness ==
    /\ kreq[1].op = "key" /\ kreq[1].pc = "done" /\ kreq[1].status = 200
    /\ ~kreq[1].test_only
    /\ kreq[1].barred
    /\ user_settings[kreq[1].uid].present
    /\ user_settings[kreq[1].uid].omi_api_key_encrypted = encrypt(kreq[1].api_key)

\* the types that the test suites send
SentByTests == {"task", "reminder", "event", "note", "test"}

\* the uid that the server reads from the request has passed for a uid: a
\* string of 3 to 50 characters
CarriesValidUid(rq) ==
    LET uid == RequestUid(rq.body_uid, rq.query_uid, NoRawUid)
    IN  uid.type = "string" /\ Len(uid.chars) >= 3 /\ Len(uid.chars) <= 50

\* some stored goal of the uid has the id
HasGoal(rows, uid, id) ==
    \E i \in 1..Len(StoredGoals(rows, uid)) : StoredGoals(rows, uid)[i].id = id

\* C18: a POST /api/actions with a valid uid, a text that is not empty and one
\* of the types task, reminder, event, note, test is answered 200 with the
\* action created and its id (a rejected request keeps its text as sent).
C18_CreatedWithId ==
    \A r \in Slots :
        (/\ areq[r].pc = "done" /\ areq[r].op = "post"
         /\ CarriesValidUid(areq[r])
         /\ (areq[r].status = 400 => areq[r].text # <<>>)
         /\ areq[r].type \in SentByTests)
            => areq[r].status = 200 /\ areq[r].newGoal.id # 0

\* C18, the types that validateAction takes and the texts of at most 500
\* characters: the POST is answered 200 with the action and its id.
C18_CreatedWithIdOfValidType ==
    \A r \in Slots :
        (/\ areq[r].pc = "done" /\ areq[r].op = "post"
         /\ CarriesValidUid(areq[r])
         /\ (areq[r].status = 400 => areq[r].text # <<>> /\ Len(areq[r].text) <= 500)
         /\ areq[r].type \in SentByTests \ {"test"})
            => areq[r].status = 200 /\ areq[r].newGoal.id # 0

\* C18, the DELETE that follows: when a DELETE /api/actions/:id is answered
\* 200, the stored goals of its uid hold no goal with that id.
C18_DeletedIsGone ==
    [][\A r \in Slots :
          (/\ areq[r].op = "delete" /\ areq[r].pc = "write"
           /\ areq'[r].pc = "done" /\ areq'[r].status = 200)
              => ~HasGoal(frienddb', areq[r].uid, areq[r].id)]_vars

\* a POST with a valid uid, a short text and the type test, answered 400
C18_Witness ==
    /\ areq[1].pc = "done" /\ areq[1].op = "post" /\ areq[1].status = 400
    /\ CarriesValidUid(areq[1])
    /\ areq[1].text = <<"<", "g", "1", ">">>
    /\ areq[1].type = "test"

\* C19: a PUT /api/actions/:id whose id is the id of no stored goal of its uid
\* when the handler reads the goals is answered 404 and never comes to a
\* write: the goals stay as they are.
C19_UnknownIdNotFound ==
    /\ [][\A r \in Slots :
            (/\ areq[r].op = "put" /\ areq[r].pc = "select" /\ areq'[r].pc # "select"
             /\ ~HasGoal(frienddb, areq[r].uid, areq[r].id))
                => /\ areq'[r].pc = "done" /\ areq'[r].status = 404
                   /\ frienddb' = frienddb]_vars
    /\ [](\A r \in Slots :
            (areq[r].op = "put" /\ areq[r].pc = "write")
                => \E i \in 1..Len(areq[r].goals) : areq[r].goals[i].id = areq[r].id)

\* a PUT for a uid with stored goals, none of which has the id, answered 404
C19_Witness ==
    /\ areq[1].op = "put" /\ areq[1].pc = "done" /\ areq[1].status = 404
    /\ StoredGoals(frienddb, areq[1].uid) # <<>>
    /\ ~HasGoal(frienddb, areq[1].uid, areq[1].id)

\* the request carries no uid, or the uid that the server reads from it is a
\* string of fewer than 3 or more than 50 characters
CarriesBadUid(rq) ==
    LET uid == RequestUid(rq.body_uid, rq.query_uid, NoRawUid)
    IN  \/ uid.type = "undefined"
        \/ uid.type = "string" /\ (Len(uid.chars) < 3 \/ Len(uid.chars) > 50)

\* C20: a request on /api/actions that carries no uid, or a uid of fewer than
\* 3 or more than 50 characters, is answered 400 at once, with no call of the
\* store and no change of the stored rows, tokens, attempts or buffers; no
\* such request is ever waiting for the store.
C20_BadUidRejected ==
    /\ [][\A r \in Slots :
            (posted' = posted + 1 /\ areq'[r] # areq[r] /\ CarriesBadUid(areq'[r]))
                => /\ areq'[r].pc = "done" /\ areq'[r].status = 400
                   /\ UNCHANGED <<heap, buffers, sessions, frienddb, csrfTokens,
                                   failedKeyAttempts, user_settings>>]_vars
    /\ [](\A r \in Slots :
            areq[r].pc \in {"select", "write"} => ~CarriesBadUid(areq[r]))

\* a DELETE with a uid of 51 characters answered 400 while the goals of a user
\* are stored, after a request with a uid of 50 characters was answered 200
C20_Witness ==
    /\ areq[1].op = "delete" /\ areq[1].pc = "done" /\ areq[1].status = 400
    /\ Len(areq[1].query_uid.chars) = 51
    /\ StoredGoals(frienddb, "u2") # <<>>
\* C21: two stored goals of one user that were created at different
\* milliseconds have different ids, and two that were created in the same
\* millisecond have the same id.
C21_IdIsCreationTime ==
    \A u \in DOMAIN frienddb :
        \A i, j \in 1..Len(StoredGoals(frienddb, u)) :
            LET g == StoredGoals(frienddb, u)[i]
                h == StoredGoals(frienddb, u)[j]
            IN  (g.created_at = h.created_at) <=> (g.id = h.id)

\* a user has three goals: two from the same millisecond with one id, and a
\* later one with another id
C21_Witness ==
    \E u \in DOMAIN frienddb :
        /\ Len(StoredGoals(frienddb, u)) = 3
        /\ StoredGoals(frienddb, u)[1].id = StoredGoals(frienddb, u)[2].id
        /\ StoredGoals(frienddb, u)[1].created_at = StoredGoals(frienddb, u)[2].created_at
        /\ StoredGoals(frienddb, u)[3].id # StoredGoals(frienddb, u)[1].id

\* the place of a provider in the order local endpoint, OMI chat endpoint,
\* OpenRouter
PlaceOf(provider) ==
    CASE provider = "ollama" -> 1 [] provider = "omi" -> 2 [] provider = "openrouter" -> 3

\* the reply that a provider's successful response carries
CarriedBy(provider) ==
    CASE provider = "ollama" -> <<"o", "l">>
      [] provider = "omi" -> <<"o", "m">>
      [] provider = "openrouter" -> <<"o", "r">>

\* C22: the reply synthesizer tries the providers strictly in the order local
\* Ollama-compatible endpoint, OMI chat endpoint, OpenRouter, and returns the
\* first successful response: every provider called is configured, a
\* provider is called only after every configured provider before it in that
\* order has been called and has not answered with a successful response,
\* and once a provider has answered with one no other provider is called and
\* the reply is that response.
C22_ProvidersInOrder ==
    LET tried == creq.attempts
        answers == creq.answers
    IN  /\ Len(answers) <= Len(tried) /\ Len(tried) <= Len(answers) + 1
        /\ \A i \in 1..Len(tried) :
              /\ tried[i].provider \in creq.env
              /\ \A p \in creq.env :
                    PlaceOf(p) < PlaceOf(tried[i].provider) =>
                        \E j \in 1..(i - 1) : tried[j].provider = p /\ answers[j] # "ok"
              /\ \A j \in 1..(i - 1) : PlaceOf(tried[j].provider) < PlaceOf(tried[i].provider)
        /\ \A i \in 1..Len(answers) :
              answers[i] = "ok" =>
                  /\ i = Len(tried)
                  /\ ~creq.raised
                  /\ creq.reply = CarriedBy(tried[i].provider)

\* the third provider has answered with a successful response after the two
\* before it have failed
C22_Witness ==
    /\ creq.pc = "done"
    /\ Len(creq.attempts) = 3
    /\ creq.answers = <<"error", "throw", "ok">>
    /\ creq.reply = <<"o", "r">>

\* the conversation that generateAssistantReply has been given: the messages
\* of the chat up to the user's new one
Conversation ==
    IF creq.pc = "fetch" THEN creq.messages
    ELSE SubSeq(creq.messages, 1, Len(creq.messages) - 1)

\* the call carries the last 10 messages of the conversation, never more, and
\* the persona system prompt
LastTenWithPersona(call) ==
    LET n == Len(Conversation)
        first == IF n > 10 THEN n - 10 ELSE 0
    IN  /\ Len(call.messages) <= 10
        /\ Len(call.messages) = n - first
        /\ \A i \in 1..Len(call.messages) :
              call.messages[i].content = Conversation[first + i].text
        /\ call.system.persona = "JARVIS"
        /\ call.system.salutation = creq.salutation

\* C23: every provider attempt made by the reply synthesizer sends the last
\* 10 messages of the conversation, never more, together with the persona
\* system prompt.
C23_LastTenWithPersona ==
    creq.pc \in {"fetch", "persist"} =>
        \A i \in 1..Len(creq.attempts) : LastTenWithPersona(creq.attempts[i])

\* the same of the attempts on the local endpoint and on OpenRouter
C23_LastTenButOmi ==
    creq.pc \in {"fetch", "persist"} =>
        \A i \in 1..Len(creq.attempts) :
            creq.attempts[i].provider # "omi" => LastTenWithPersona(creq.attempts[i])

\* a conversation of 11 messages has gone to the OMI chat endpoint, whole and
\* without the prompt, and then to OpenRouter, the last 10 with the prompt
C23_Witness ==
    /\ creq.pc = "fetch"
    /\ Len(Conversation) = 11
    /\ Len(creq.attempts) = 2
    /\ creq.attempts[1].provider = "omi"
    /\ Len(creq.attempts[1].messages) = 11
    /\ creq.attempts[1].system = NoPrompt
    /\ creq.attempts[2].provider = "openrouter"
    /\ Len(creq.attempts[2].messages) = 10

\* generateAssistantReply has been called and every configured provider, if
\* there is one, has failed
EveryProviderFailed ==
    /\ creq.pc \in {"persist", "done"}
    /\ creq.messages # <<>>
    /\ Len(creq.answers) = Cardinality(creq.env)
    /\ \A i \in 1..Len(creq.answers) : creq.answers[i] \in {"error", "throw", "garbled"}

\* the list ends in the user's message followed by the assistant's reply
EndsInUserThenReply(messages, canned) ==
    LET n == Len(messages)
    IN  /\ n >= 2
        /\ messages[n - 1].is_user
        /\ messages[n - 1].text \in {trim(creq.text), trim(creq.body_text)}
        /\ ~messages[n].is_user
        /\ messages[n].text \in canned

C24_WitnessStore ==
    /\ creq.pc = "done"
    /\ creq.messages = <<>>
    /\ creq.status = 200
    /\ creq.body[Len(creq.body)].text = TextUnderstood

\* C25: GET /api/preferences for a uid returns the lower-cased salutation of
\* the most recent POST /api/preferences for that uid that was answered 200,
\* or 'sir' if there has been none.
C25_GetReturnsLastSaved ==
    (preq.pc = "done" /\ preq.op = "get") =>
        /\ preq.status = 200
        /\ preq.body = IF saved[preq.uid] # NoSalutation THEN saved[preq.uid] ELSE TextSir

\* a GET has returned the salutation that a POST has sent in capitals
C25_Witness ==
    /\ preq.pc = "done"
    /\ preq.op = "get"
    /\ saved[preq.uid] = <<"j", "a", "y">>
    /\ preq.body = <<"j", "a", "y">>

\* a GET returns 'sir' after a POST that was answered 200
C25_WitnessLost ==
    /\ preq.pc = "done"
    /\ preq.op = "get"
    /\ saved[preq.uid] = <<"j", "a", "y">>
    /\ preq.body = TextSir

\* C26: GET /readyz returns 200 only when the health check of the store has
\* succeeded within the timeout of 1.5 s during that request, and 503 in
\* every other case; GET /healthz returns 200 {status: 'ok'} whatever the
\* state of the store.
C26_ReadyOnlyWhenHealthy ==
    ready.pc = "done" =>
        /\ ready.path = "/readyz" =>
              /\ ready.status \in {200, 503}
              /\ ready.status = 200 <=>
                    (ready.env /\ ready.outcome = "ok" /\ ready.took <= 1500)
        /\ ready.path = "/healthz" => (ready.status = 200 /\ ready.body = "ok")

\* the store has answered its health check, too late, and /readyz has
\* answered 503
C26_Witness ==
    /\ ready.pc = "done"
    /\ ready.path = "/readyz"
    /\ ready.outcome = "ok"
    /\ ready.took > 1500
    /\ ready.status = 503

\* the store has answered its health check in time
C26_WitnessReady ==
    /\ ready.pc = "done"
    /\ ready.path = "/readyz"
    /\ ready.status = 200

\* C27: graceful shutdown: after SIGTERM (or SIGINT) the server has been told
\* to close, and the process eventually exits: with code 0 once the server
\* has closed without error, or with code 1 no later than 10 seconds after
\* the signal.
C27_ExitsAfterSignal ==
    /\ [](server.signals # <<>> => server.state # "listening")
    /\ [](server.exit = 0 => (server.signals # <<>> /\ server.state = "closed"))
    /\ [](server.exit = 1 =>
             /\ server.signals # <<>>
             /\ \A i \in 1..Len(server.signals) : now <= server.signals[i].at + 10)
    /\ (server.signals # <<>>) ~> (server.exit \in {0, 1})

\* a connection stays open and the process is ended 10 seconds after SIGTERM
C27_Witness ==
    /\ server.exit = 1
    /\ server.connections > 0
    /\ server.signals[1].signal = "SIGTERM"
    /\ now = server.signals[1].at + 10

\* the last connection has ended after SIGTERM and the process has exited
C27_WitnessClosed ==
    /\ server.exit = 0
    /\ Len(server.signals) = 2
    /\ server.signals[1].signal = "SIGTERM"
    /\ now > server.signals[1].at

C28_WitnessRepeated ==
    \E s \in Sessions :
        /\ replies[s].prev200 >= 0
        /\ ~replies[s].prevNotified
        /\ replies[s].last200 = replies[s].prev200 + 1

\* C29: when silence ends the analysis timer resets: every webhook request
\* handled while the session is silent is answered 202, the request in which
\* silence ends too, and no request for that session is answered 200 until
\* at least 30 seconds after the request that ended silence.
C29_SilenceEndResetsTimer ==
    /\ \A r \in Slots :
          (Answered(r) /\ req[r].entered.silenceDetected) => req[r].status = 202
    /\ \A s \in Sessions :
          (replies[s].last200 >= 0 /\ replies[s].endedThen >= 0) =>
              replies[s].last200 >= replies[s].endedThen + 30

\* silence has ended in a request answered 202 and a request has been
\* answered 200 thirty seconds after it
C29_Witness ==
    \E s \in Sessions :
        /\ replies[s].endedThen >= 0
        /\ replies[s].last200 = replies[s].endedThen + 30
        /\ replies[s].prev200 < 0

\* a request handled in silence that goes on has been answered 202
C29_WitnessSilent ==
    \E r \in Slots :
        /\ Answered(r)
        /\ req[r].entered.silenceDetected
        /\ req[r].check.silenceDetected
        /\ req[r].status = 202

\* no request is being handled
BetweenRequests == \A r \in Slots : req[r].pc \in {"idle", "done"}

\* C30: within a buffering epoch the insertion order of the buffer is the
\* chronological order: at every point between requests the timestamps of a
\* session's buffered messages are non-decreasing in sequence order, whatever
\* the timestamps of the segments (explicit start values or request time).
C30_Chronological ==
    BetweenRequests =>
        \A s \in Sessions :
            buffers[s] # NoObject =>
                LET messages == heap[buffers[s]].messages
                IN  \A i, j \in 1..Len(messages) :
                        i < j => messages[i].timestamp <= messages[j].timestamp

\* between requests, a message stamped with the request time is followed by
\* one stamped with an earlier explicit start
C30_Witness ==
    /\ BetweenRequests
    /\ \E s \in Sessions :
          /\ buffers[s] # NoObject
          /\ Len(heap[buffers[s]].messages) = 2
          /\ heap[buffers[s]].messages[1].timestamp = TimeZero
          /\ heap[buffers[s]].messages[2].timestamp = 99

(***************************************************************************)
(* C31: getBuffer returns the buffer object that the map holds for the     *)
(* session when there is one; else, when the select finds a row, a buffer  *)
(* with exactly the messages of that row and silenceDetected false; else   *)
(* an empty buffer, and with the store accepting the calls the table then  *)
(* holds a new empty row of the session.  In every case, store failures    *)
(* included, what it returns is a buffer of the map.                       *)
(***************************************************************************)
\* getBuffer has returned to the handler of slot r
Returned(r) == req[r].pc \in {"update", "friend", "done"} /\ req[r].session_id # NoSession

C31_WitnessCreated ==
    \E r \in Slots :
        /\ req[r].pc = "update"
        /\ req[r].had = NoObject
        /\ ~req[r].sessionData.present
        /\ req[r].accepted

\* a request has found the buffer of the session in the map, with messages
C31_WitnessExisting ==
    \E r \in Slots :
        /\ Returned(r)
        /\ req[r].had # NoObject
        /\ req[r].entered.messages # <<>>

(***************************************************************************)
(* C32: a uid that is locked out stays locked out until the time its       *)
(* lockout ends (30 minutes after it began): no step of any request,       *)
(* the answer of the upstream API to a validation in flight included,      *)
(* ends the lockout before.                                                *)
(***************************************************************************)
C32_LockoutLasts ==
    [][\A u \in OmiUids :
          (/\ isLockedOut(failedKeyAttempts[u], NowMs)
           /\ NowMs' < failedKeyAttempts[u].lockedUntil)
              => /\ isLockedOut(failedKeyAttempts'[u], NowMs')
                 /\ failedKeyAttempts'[u].lockedUntil = failedKeyAttempts[u].lockedUntil]_vars

\* the third failed validation in a row of a uid is less than 30 minutes ago,
\* a validation that was in flight then has been answered 200, and the uid
\* is not locked out
C32_Witness ==
    \E u \in OmiUids, r \in Slots :
        /\ Barred(failures[u], NowMs)
        /\ ~isLockedOut(failedKeyAttempts[u], NowMs)
        /\ kreq[r].uid = u
        /\ kreq[r].pc = "done"
        /\ kreq[r].fetched
        /\ ~kreq[r].barred
        /\ kreq[r].status = 200

(***************************************************************************)
(* C33: no step of a webhook request changes a row of frienddb that        *)
(* exists, its goals included; the only row such a step adds is the row    *)
(* of the request's uid, with no goals.                                    *)
(***************************************************************************)
C33_WebhookKeepsGoals ==
    [][req' # req =>
          \A u \in DOMAIN frienddb :
              /\ frienddb[u].present => frienddb'[u] = frienddb[u]
              /\ (~frienddb[u].present /\ frienddb'[u].present) =>
                    /\ frienddb'[u].goals = <<>>
                    /\ \E r \in Slots : u = EffectiveUid(req[r]) /\ req[r].pc = "friend"]_vars

\* the upsert of saveBuffer has met the row of a user who has goals, and the
\* row is as it was
C33_Witness ==
    \E r \in Slots :
        /\ req[r].pc = "done"
        /\ req[r].outcome = "ok"
        /\ req[r].found.present
        /\ req[r].found.goals # <<>>
        /\ frienddb[EffectiveUid(req[r])] = req[r].found

\* the upsert of saveBuffer has met no row and has added one without goals
C33_WitnessInserted ==
    \E r \in Slots :
        /\ req[r].pc = "done"
        /\ req[r].outcome = "ok"
        /\ ~req[r].found.present
        /\ req[r].payload # NoPayload
        /\ frienddb[EffectiveUid(req[r])] = [present |-> TRUE, goals |-> <<>>]

(***************************************************************************)
(* C34: the step in which a DELETE /api/actions/:id is answered success    *)
(* leaves of the stored goals of its uid exactly those whose id is not     *)
(* :id, in their order; when no stored goal has that id the goals are      *)
(* left as they were.                                                      *)
(***************************************************************************)
\* the goals without those of the id
Without(goals, id) ==
    LET Other(g) == g.id # id
    IN  SelectSeq(goals, Other)

C34_DeleteRemovesOnlyId ==
    [][\A r \in Slots :
          (/\ areq[r].op = "delete" /\ areq[r].pc = "write"
           /\ areq'[r].pc = "done" /\ areq'[r].status = 200)
              => /\ \A u \in DOMAIN frienddb \ {areq[r].uid} : frienddb'[u] = frienddb[u]
                 /\ frienddb'[areq[r].uid].present = frienddb[areq[r].uid].present
                 /\ frienddb[areq[r].uid].present =>
                       frienddb'[areq[r].uid].goals =
                           Without(frienddb[areq[r].uid].goals, areq[r].id)]_vars

\* a goal was stored, then a DELETE of an id that no goal has was answered
\* success although its select had failed, and the goal is gone
C34_Witness ==
    /\ posted = 2
    /\ areq[1].op = "delete" /\ areq[1].pc = "done" /\ areq[1].status = 200
    /\ areq[1].id = UnknownId
    /\ ~areq[1].userData.present
    /\ frienddb[areq[1].uid].present
    /\ frienddb[areq[1].uid].goals = <<>>

\* a DELETE of the id of one of two goals was answered success and the other
\* goal is left alone
C34_WitnessRemoved ==
    /\ areq[1].op = "delete" /\ areq[1].pc = "done" /\ areq[1].status = 200
    /\ areq[1].userData.present
    /\ Len(areq[1].userData.goals) = 2
    /\ Len(frienddb[areq[1].uid].goals) = 1
    /\ frienddb[areq[1].uid].goals[1].id # areq[1].id

\* a DELETE of an id that no goal has was answered success, the goals stay
C34_WitnessAbsent ==
    /\ areq[1].op = "delete" /\ areq[1].pc = "done" /\ areq[1].status = 200
    /\ areq[1].id = UnknownId
    /\ areq[1].userData.present
    /\ frienddb[areq[1].uid].goals # <<>>
    /\ frienddb[areq[1].uid].goals = areq[1].userData.goals

(***************************************************************************)
(* C35: in a handler that runs behind validateUid, req.uid holds only      *)
(* characters of [A-Za-z0-9_-] and has between 3 and 50 of them.           *)
(***************************************************************************)
\* the handler of slot r runs: validateUid and validateAction have called next
InHandler(r) == areq[r].pc \in {"select", "write"}

C35_UidWellFormed ==
    \A r \in Slots :
        InHandler(r) =>
            /\ \A i \in 1..Len(areq[r].req_uid) : areq[r].req_uid[i] \in UidCharacters
            /\ Len(areq[r].req_uid) >= 3
            /\ Len(areq[r].req_uid) <= 50

\* C35, the part that holds: the characters, and the upper limit of the length
C35_UidCharacters ==
    \A r \in Slots :
        InHandler(r) =>
            /\ \A i \in 1..Len(areq[r].req_uid) : areq[r].req_uid[i] \in UidCharacters
            /\ Len(areq[r].req_uid) <= 50

\* a handler runs with a req.uid of less than 3 characters
C35_Witness ==
    \E r \in Slots :
        /\ InHandler(r)
        /\ Len(areq[r].req_uid) < 3
        /\ Len(RequestUid(areq[r].body_uid, areq[r].query_uid, NoRawUid).chars) >= 3

\* a handler runs with a req.uid from which characters were removed and that
\* still has 3 characters
C35_WitnessSanitized ==
    \E r \in Slots :
        /\ InHandler(r)
        /\ Len(areq[r].req_uid) = 3
        /\ Len(RequestUid(areq[r].body_uid, areq[r].query_uid, NoRawUid).chars) = 5

(***************************************************************************)
(* C36: no message of the user in a chat session, in the array that the    *)
(* handler of POST /api/chat/message builds or in the row it writes, has   *)
(* a text with the character < or >.                                       *)
(***************************************************************************)
\* every message of the user is free of < and >
FreeOfBrackets(messages) ==
    \A i \in 1..Len(messages) :
        messages[i].is_user =>
            \A j \in 1..Len(messages[i].text) : messages[i].text[j] \notin {"<", ">"}

C36_NoBracketsInChat ==
    /\ FreeOfBrackets(creq.messages)
    /\ \A c \in ChatIds : chatdb[c].present => FreeOfBrackets(chatdb[c].messages)

\* C36 for the requests whose text is more than brackets and white space
C36_NoBracketsWhenSanitized ==
    (creq.messages # <<>> /\ sanitizedText(creq.body_text) # <<>>) =>
        LET n == Len(creq.messages)
            appended == IF creq.messages[n].is_user THEN creq.messages[n]
                        ELSE creq.messages[n - 1]
        IN  /\ appended.is_user
            /\ appended.text = sanitizedText(creq.body_text)
            /\ FreeOfBrackets(<<appended>>)

\* a request whose text is <> has been answered 200 and the row of its chat
\* holds the text as the last message of the user
C36_Witness ==
    /\ creq.pc = "done"
    /\ creq.status = 200
    /\ creq.body_text = <<"<", ">">>
    /\ chatdb[creq.sessionId].present
    /\ chatdb[creq.sessionId].messages = creq.messages
    /\ creq.messages[Len(creq.messages) - 1] =
           ChatMessage(<<"<", ">">>, creq.nowTenths, TRUE)

\* a request whose text holds brackets around a word has been answered 200
\* and the row of its chat holds the word
C36_WitnessSanitized ==
    /\ creq.pc = "done"
    /\ creq.status = 200
    /\ creq.body_text = <<"<", "h", "i", ">", " ">>
    /\ chatdb[creq.sessionId].present
    /\ chatdb[creq.sessionId].messages = creq.messages
    /\ creq.messages[Len(creq.messages) - 1] =
           ChatMessage(<<"h", "i">>, creq.nowTenths, TRUE)

(***************************************************************************)
(* C37: the notification of a request answered 200 quotes every message    *)
(* that the buffer held when the request was found due, each once, with    *)
(* its text and the label of its speaker, in the order of the timestamps   *)
(* (messages of one timestamp in the order of the buffer), and its         *)
(* parameters are user_name, user_facts, user_conversations, user_chat.    *)
(***************************************************************************)
\* the place of the i-th message among the messages in the order of their timestamps
RankOf(messages, i) ==
    Cardinality({j \in 1..Len(messages) :
                    \/ messages[j].timestamp < messages[i].timestamp
                    \/ messages[j].timestamp = messages[i].timestamp /\ j <= i})

Notified(r) == Answered(r) /\ req[r].status = 200 /\ req[r].body.kind = "notification"

C37_NotificationQuotesBuffer ==
    \A r \in Slots :
        Notified(r) =>
            LET messages == req[r].check.messages
                discussion == req[r].body.discussion
            IN  /\ Len(discussion) = Len(messages)
                /\ \A i \in 1..Len(messages) :
                      discussion[RankOf(messages, i)] =
                          [text |-> messages[i].text,
                           speaker |-> IF messages[i].is_user THEN "{{user_name}}"
                                       ELSE "other"]
                /\ req[r].body.params =
                      <<"user_name", "user_facts", "user_conversations", "user_chat">>

\* a notification quotes two messages of two speakers that the buffer held
\* in the other order
C37_Witness ==
    \E r \in Slots :
        /\ Notified(r)
        /\ Len(req[r].check.messages) = 2
        /\ req[r].check.messages[1].timestamp > req[r].check.messages[2].timestamp
        /\ req[r].body.discussion[1].speaker # req[r].body.discussion[2].speaker

(***************************************************************************)
(* C38: between requests a buffer whose silenceDetected is true has a      *)
(* wordsAfterSilence below 5; and a request whose getBuffer detects        *)
(* silence (more than 120 seconds since the last activity of the buffer    *)
(* in memory) gets the buffer with silenceDetected true and                *)
(* wordsAfterSilence 0.                                                    *)
(***************************************************************************)
C38_WordsBelowFiveWhileSilent ==
    /\ BetweenRequests =>
          \A o \in 1..Len(heap) :
              heap[o].silenceDetected =>
                  heap[o].wordsAfterSilence < minWordsAfterSilence
    /\ \A r \in Slots :
          (/\ req[r].pc \in {"update", "friend", "done"}
           /\ req[r].had # NoObject
           /\ req[r].timeSinceActivity > silenceThreshold)
              => /\ req[r].entered.silenceDetected
                 /\ req[r].entered.wordsAfterSilence = 0

\* silence was detected for a buffer that was silent already and had counted
\* words; the request has been answered
C38_Witness ==
    \E r \in Slots :
        /\ req[r].pc = "done"
        /\ req[r].had # NoObject
        /\ req[r].timeSinceActivity > silenceThreshold
        /\ req[r].wordsWere > 0
        /\ req[r].entered.wordsAfterSilence = 0

\* between requests a buffer is silent and has counted words
C38_WitnessCounting ==
    /\ BetweenRequests
    /\ \E o \in 1..Len(heap) : heap[o].silenceDetected /\ heap[o].wordsAfterSilence > 0

(***************************************************************************)
(* C39: a row of jarvis_sessions comes into being only in the step in      *)
(* which the store applies the upsert of getBuffer; the step in which the  *)
(* store answers the update of saveBuffer for a session without a row      *)
(* leaves the table as it is; and saveBuffer sends its update only while   *)
(* the buffer of the session is in the map.                                *)
(***************************************************************************)
C39_SaveBufferCreatesNoRow ==
    [][/\ \A s \in Sessions :
             (~sessions[s].present /\ sessions'[s].present) =>
                 \E r \in Slots : req[r].pc = "upsert" /\ req[r].session_id = s
       /\ \A r \in Slots :
             (/\ req[r].pc = "update"
              /\ req'[r].pc # "update"
              /\ ~sessions[req[r].session_id].present)
                 => sessions' = sessions
       /\ \A r \in Slots :
             (req[r].pc # "update" /\ req'[r].pc = "update") =>
                 buffers'[req'[r].session_id] # NoObject]_vars

\* the create of getBuffer has failed, the buffer holds a message, the store
\* has answered the update of saveBuffer without an error, and the session
\* has no row
C39_Witness ==
    \E r \in Slots :
        /\ req[r].pc = "friend"
        /\ req[r].outcome = "ok"
        /\ req[r].had = NoObject
        /\ req[r].payload.messages # <<>>
        /\ ~sessions[req[r].session_id].present
====
